---- MODULE Spec2Model ----
(***************************************************************************)
(* A model of jsautogen's ConversableAgent                                 *)
(* (src/jsautogen/agentchat/conversable_agent.js): the per-peer message     *)
(* store, the reply registry and its two dispatch loops, the trigger        *)
(* matcher, and the termination / human-interrupt strategy with its         *)
(* counters and ceilings.                                                   *)
(*                                                                          *)
(* JavaScript values are encoded as follows.                                *)
(*   - an absent property / `undefined` string-valued field is NoVal;       *)
(*   - `null` is Null;                                                      *)
(*   - a Map is a function whose DOMAIN is the set of keys present;         *)
(*   - a number slot that may hold `undefined` or NaN holds an integer,     *)
(*     with the two sentinels Undef and NaN below zero;                     *)
(*   - a thrown exception is the name of its class in an `err` field        *)
(*     ("none" when the call returns).                                      *)
(***************************************************************************)
EXTENDS Integers, Sequences, FiniteSets, TLC

VARIABLES
    oaiMessages,                 \* this._oaiMessages, per agent: Map peer -> Array of messages
    consecutiveAutoReplyCounter, \* this._consecutiveAutoReplyCounter, per agent: Map peer -> number
    maxConsecutiveAutoReplyDict, \* this._maxConsecutiveAutoReplyDict, per agent: Map peer -> number
    maxConsecutiveAutoReply,     \* this._maxConsecutiveAutoReply, per agent
    replyAtReceive,              \* this.replyAtReceive, per agent: Map peer -> boolean
    replyFuncList,               \* this._replyFuncList, per agent: Array of reply tuples
    settings,                    \* constructor arguments kept in fields, per agent
    nextId,                      \* identities handed out to reply tuples (object identity)
    last                         \* what the most recent call did and returned

vars == <<oaiMessages, consecutiveAutoReplyCounter, maxConsecutiveAutoReplyDict,
          maxConsecutiveAutoReply, replyAtReceive, replyFuncList, settings,
          nextId, last>>

----------------------------------------------------------------------------
(* Bounds of the model *)

MaxStored == 2  \* messages the host lets one agent store, all conversations together
MaxReg == 2     \* registerReply calls made by the host after construction
MaxCount == 2   \* largest counter value the host lets the strategy reach

----------------------------------------------------------------------------
(* JavaScript values *)

NoVal == "<undefined>"
Null == "<null>"
Undef == 0 - 2
NaN == 0 - 1

Agents == {"A", "B", "C"}

\* agent.name: the agents are named by their identity
NameOf(a) == a

EmptyMap == [k \in {} |-> 0]

\* Map.prototype.set
MapSet(m, k, v) == [x \in (DOMAIN m) \cup {k} |-> IF x = k THEN v ELSE m[x]]

\* Map.prototype.get of a number-valued Map
MapGetNum(m, k) == IF k \in DOMAIN m THEN m[k] ELSE Undef

\* ToNumber of a number slot: undefined becomes NaN
ToNumber(v) == IF v = Undef THEN NaN ELSE v

\* a >= b on number slots: false as soon as one side is NaN or undefined
JsGe(a, b) == ToNumber(a) # NaN /\ ToNumber(b) # NaN /\ a >= b

\* a + b on number slots
JsAdd(a, b) == IF ToNumber(a) = NaN \/ ToNumber(b) = NaN THEN NaN ELSE a + b

\* truthiness of a string-valued slot: undefined and "" are falsy
Truthy(v) == v # NoVal /\ v # ""

----------------------------------------------------------------------------
(* Messages *)

\* A raw message as the host passes it: a bare string, or an object with
\* some of the keys content, function_call, name, context, role.
StrMsg(s) ==
    [kind |-> "string", content |-> s, function_call |-> NoVal,
     name |-> NoVal, context |-> NoVal, role |-> NoVal]

ObjMsg(c, fc, n, ctx, r) ==
    [kind |-> "object", content |-> c, function_call |-> fc,
     name |-> n, context |-> ctx, role |-> r]

RawMessages ==
    { StrMsg("hi"), StrMsg(""),
      ObjMsg("hi", NoVal, NoVal, NoVal, NoVal),
      ObjMsg("TERMINATE", NoVal, NoVal, "ctx", "user"),
      ObjMsg(NoVal, "call_f", NoVal, NoVal, NoVal),
      ObjMsg("hi", "call_f", NoVal, NoVal, "function"),
      ObjMsg("5", NoVal, "f", NoVal, "function"),
      ObjMsg("", NoVal, "f", NoVal, "function"),
      ObjMsg(NoVal, NoVal, NoVal, NoVal, NoVal) }

\* ConversableAgent._messageToDict
MessageToDict(message) ==
    IF message.kind = "string"
    THEN ObjMsg(message.content, NoVal, NoVal, NoVal, NoVal)
    ELSE message

\* The copy of one key in _appendOaiMessage: `if (message[key]) oaiMessage[key] = message[key]`
CopyKey(v) == IF Truthy(v) THEN v ELSE NoVal

\* The role _appendOaiMessage stores
StoredRole(message, role) ==
    IF Truthy(message.function_call) THEN "assistant"
    ELSE IF message.role = "function" THEN "function"
    ELSE role

\* The validation of _appendOaiMessage (the negation of its early `return false`)
AppendAccepts(message) ==
    Truthy(message.content) \/ Truthy(message.function_call)

\* An append that creates the conversation before it validates the message
AppendOaiMessageCreatesFirst(store, message, role, conversationId) ==
    LET m == MessageToDict(message)
        before == IF conversationId \in DOMAIN store
                  THEN store[conversationId] ELSE << >>
        created == MapSet(store, conversationId, before)
    IN  IF ~AppendAccepts(m)
        THEN [ok |-> FALSE, store |-> created]
        ELSE [ok |-> TRUE,
              store |-> MapSet(store, conversationId,
                               Append(before,
                                      [content |-> CopyKey(m.content),
                                       function_call |-> CopyKey(m.function_call),
                                       name |-> CopyKey(m.name),
                                       context |-> CopyKey(m.context),
                                       role |-> StoredRole(m, role)]))]

\* _appendOaiMessage(message, role, conversationId) on the Map `store`:
\* the value returned and the Map afterwards.
AppendOaiMessage(store, message, role, conversationId) ==
    LET m == MessageToDict(message)
        oaiMessage == [content |-> CopyKey(m.content),
                       function_call |-> CopyKey(m.function_call),
                       name |-> CopyKey(m.name),
                       context |-> CopyKey(m.context),
                       role |-> StoredRole(m, role)]
        before == IF conversationId \in DOMAIN store
                  THEN store[conversationId] ELSE << >>
    IN  IF ~AppendAccepts(m)
        THEN [ok |-> FALSE, store |-> store]
        ELSE [ok |-> TRUE,
              store |-> MapSet(store, conversationId, Append(before, oaiMessage))]

----------------------------------------------------------------------------
(* The record of the most recent call *)

NoMsg == ObjMsg(NoVal, NoVal, NoVal, NoVal, NoVal)

NoMessages == [given |-> FALSE, arr |-> << >>]

NoCall ==
    [op |-> "new", self |-> Null, peer |-> Null, msg |-> NoMsg,
     err |-> "none", ret |-> NoVal, received |-> FALSE,
     messages |-> NoMessages, exclude |-> {}, human |-> "",
     id |-> 0, position |-> 0, considered |-> << >>, invoked |-> << >>,
     final |-> FALSE, prompts |-> 0, num |-> 0, out |-> NoMsg,
     clear |-> FALSE, name |-> NoVal, args |-> << >>, called |-> FALSE,
     codeConfig |-> [kind |-> "null", lastNMessages |-> Undef],
     trigger |-> [kind |-> "null", val |-> NoVal, elems |-> << >>]]

----------------------------------------------------------------------------
(* send / receive *)

\* _processReceivedMessage(message, sender, silent): it calls
\* this._appendOAIMessage, a method the class does not define (the method
\* defined is _appendOaiMessage), so the call throws a TypeError before
\* anything is stored.
ProcessReceivedMessage(store, message, sender) ==
    [err |-> "TypeError", store |-> store]

\* receive(message, sender, requestReply, silent): the error of
\* _processReceivedMessage propagates; nothing after it runs.
ReceiveOutcome(store, message, sender) ==
    ProcessReceivedMessage(store, message, sender)

\* receive called by the host
Receive(self, message, sender) ==
    LET r == ReceiveOutcome(oaiMessages[self], message, sender)
    IN  /\ oaiMessages' = [oaiMessages EXCEPT ![self] = r.store]
        /\ last' = [NoCall EXCEPT !.op = "receive", !.self = self, !.peer = sender,
                                  !.msg = message, !.err = r.err, !.received = TRUE]
        /\ UNCHANGED <<consecutiveAutoReplyCounter, maxConsecutiveAutoReplyDict,
                       maxConsecutiveAutoReply, replyAtReceive, replyFuncList,
                       settings, nextId>>

\* aReceive(message, sender, requestReply, silent) called by the host:
\* its first statement is the call of _processReceivedMessage, which
\* throws before the function reaches an await, so the call is over (its
\* promise rejected) in the step that starts it and no other call can
\* run in between.
AReceive(self, message, sender) ==
    LET r == ProcessReceivedMessage(oaiMessages[self], message, sender)
    IN  /\ oaiMessages' = [oaiMessages EXCEPT ![self] = r.store]
        /\ last' = [NoCall EXCEPT !.op = "aReceive", !.self = self, !.peer = sender,
                                  !.msg = message, !.err = r.err, !.received = TRUE]
        /\ UNCHANGED <<consecutiveAutoReplyCounter, maxConsecutiveAutoReplyDict,
                       maxConsecutiveAutoReply, replyAtReceive, replyFuncList,
                       settings, nextId>>

\* The number of messages in a store
RECURSIVE StoredCountOver(_, _)
StoredCountOver(store, keys) ==
    IF keys = {} THEN 0
    ELSE LET k == CHOOSE x \in keys : TRUE
         IN  Len(store[k]) + StoredCountOver(store, keys \ {k})

StoredCount(store) == StoredCountOver(store, DOMAIN store)

\* send(message, recipient, requestReply, silent) on the stores of all
\* agents: append to the own store, throw when the append is refused,
\* otherwise call recipient.receive(message, this, requestReply, silent).
SendOutcome(stores, self, message, recipient) ==
    LET a == AppendOaiMessage(stores[self], message, "assistant", recipient)
        mine == [stores EXCEPT ![self] = a.store]
        r == ReceiveOutcome(mine[recipient], message, self)
    IN  [appended |-> a.ok,
         err |-> IF a.ok THEN r.err ELSE "Error",
         received |-> a.ok,
         stores |-> IF a.ok THEN [mine EXCEPT ![recipient] = r.store] ELSE mine]

\* send called by the host
Send(self, message, recipient) ==
    LET s == SendOutcome(oaiMessages, self, message, recipient)
    IN  /\ s.appended => StoredCount(s.stores[self]) <= MaxStored
        /\ oaiMessages' = s.stores
        /\ last' = [NoCall EXCEPT !.op = "send", !.self = self, !.peer = recipient,
                                  !.msg = message, !.err = s.err,
                                  !.received = s.received]
        /\ UNCHANGED <<consecutiveAutoReplyCounter, maxConsecutiveAutoReplyDict,
                       maxConsecutiveAutoReply, replyAtReceive, replyFuncList,
                       settings, nextId>>

----------------------------------------------------------------------------
(* Histories and chats *)

\* clearHistory(agent) on the Map: the error thrown and the Map afterwards.
\* With no agent the Map is cleared. With an agent that has a conversation
\* the code calls clear() on the stored Array, and an Array has no clear
\* method: a TypeError, the conversation left as it was.
ClearHistoryOutcome(store, agent) ==
    IF agent = Null THEN [err |-> "none", store |-> EmptyMap]
    ELSE IF agent \in DOMAIN store THEN [err |-> "TypeError", store |-> store]
    ELSE [err |-> "none", store |-> store]

\* clearHistory(agent) called by the host
ClearHistory(self, agent) ==
    LET c == ClearHistoryOutcome(oaiMessages[self], agent)
    IN  /\ oaiMessages' = [oaiMessages EXCEPT ![self] = c.store]
        /\ last' = [NoCall EXCEPT !.op = "clearHistory", !.self = self,
                                  !.peer = agent, !.err = c.err]
        /\ UNCHANGED <<consecutiveAutoReplyCounter, maxConsecutiveAutoReplyDict,
                       maxConsecutiveAutoReply, replyAtReceive, replyFuncList,
                       settings, nextId>>

\* The error of the two clearHistory calls of _prepareChat, the second
\* made only when the first returned
PrepareChatError(stores, self, recipient, clearHistory) ==
    LET c1 == ClearHistoryOutcome(stores[self], recipient)
        c2 == ClearHistoryOutcome(stores[recipient], self)
    IN  IF ~clearHistory THEN "none"
        ELSE IF c1.err # "none" THEN c1.err
        ELSE c2.err

\* initiateChat(recipient, clearHistory, silent, context) and
\* aInitiateChat, with context.message = message: _prepareChat resets the
\* two counters and sets the two reply-at-receive flags, clears the two
\* histories when asked to, then the message is sent.
InitiateChat(op, self, recipient, clearHistory, message) ==
    LET e == PrepareChatError(oaiMessages, self, recipient, clearHistory)
        s == SendOutcome(oaiMessages, self, message, recipient)
    IN  /\ (e = "none" /\ s.appended) => StoredCount(s.stores[self]) <= MaxStored
        /\ consecutiveAutoReplyCounter' =
             [consecutiveAutoReplyCounter EXCEPT
                ![self] = MapSet(@, recipient, 0),
                ![recipient] = MapSet(@, self, 0)]
        /\ replyAtReceive' =
             [replyAtReceive EXCEPT
                ![self] = MapSet(@, recipient, TRUE),
                ![recipient] = MapSet(@, self, TRUE)]
        /\ oaiMessages' = IF e = "none" THEN s.stores ELSE oaiMessages
        /\ last' = [NoCall EXCEPT !.op = op, !.self = self, !.peer = recipient,
                                  !.msg = message,
                                  !.err = IF e = "none" THEN s.err ELSE e,
                                  !.received = (e = "none" /\ s.received),
                                  !.clear = clearHistory]
        /\ UNCHANGED <<maxConsecutiveAutoReplyDict, maxConsecutiveAutoReply,
                       replyFuncList, settings, nextId>>

\* Array.prototype.slice(-1)[0]: the last element, undefined for an empty Array
LastOf(arr) ==
    IF Len(arr) = 0 THEN [ret |-> NoVal, out |-> NoMsg]
    ELSE [ret |-> "message", out |-> arr[Len(arr)]]

\* A lastMessage() that answers from some conversation when there are several
LastMessageOfAny(store, agent) ==
    IF agent = Null
    THEN (IF Cardinality(DOMAIN store) = 0
          THEN [err |-> "none", ret |-> Null, out |-> NoMsg]
          ELSE LET only == CHOOSE k \in DOMAIN store : TRUE
               IN  [err |-> "none"] @@ LastOf(store[only]))
    ELSE IF agent \notin DOMAIN store
    THEN [err |-> "The agent '" \o NameOf(agent) \o "' is not present in any conversation. No history available for this agent.",
          ret |-> NoVal, out |-> NoMsg]
    ELSE [err |-> "none"] @@ LastOf(store[agent])

\* lastMessage(agent): the error thrown, or what is returned (null,
\* undefined or a message)
LastMessageOutcome(store, agent) ==
    IF agent = Null
    THEN (IF Cardinality(DOMAIN store) = 0
          THEN [err |-> "none", ret |-> Null, out |-> NoMsg]
          ELSE IF Cardinality(DOMAIN store) = 1
          THEN LET only == CHOOSE k \in DOMAIN store : TRUE
               IN  [err |-> "none"] @@ LastOf(store[only])
          ELSE [err |-> "More than one conversation is found. Please specify the sender to get the last message.",
                ret |-> NoVal, out |-> NoMsg])
    ELSE IF agent \notin DOMAIN store
    THEN [err |-> "The agent '" \o NameOf(agent) \o "' is not present in any conversation. No history available for this agent.",
          ret |-> NoVal, out |-> NoMsg]
    ELSE [err |-> "none"] @@ LastOf(store[agent])

\* lastMessage(agent) called by the host
LastMessage(self, agent) ==
    LET r == LastMessageOutcome(oaiMessages[self], agent)
    IN  /\ last' = [NoCall EXCEPT !.op = "lastMessage", !.self = self,
                                  !.peer = agent, !.err = r.err, !.ret = r.ret,
                                  !.out = r.out]
        /\ UNCHANGED <<oaiMessages, consecutiveAutoReplyCounter,
                       maxConsecutiveAutoReplyDict, maxConsecutiveAutoReply,
                       replyAtReceive, replyFuncList, settings, nextId>>

----------------------------------------------------------------------------
(* Triggers *)

\* The trigger shapes registerReply is handed. `val` is the string of a
\* string trigger, the agent of an agent trigger, the name of a predicate;
\* `elems` are the elements of a list trigger.
TNull == [kind |-> "null", val |-> NoVal, elems |-> << >>]
TString(s) == [kind |-> "string", val |-> s, elems |-> << >>]
TClass == [kind |-> "class", val |-> "Agent", elems |-> << >>]
TPredicate(p) == [kind |-> "predicate", val |-> p, elems |-> << >>]
TAgent(a) == [kind |-> "agent", val |-> a, elems |-> << >>]
TList(es) == [kind |-> "list", val |-> NoVal, elems |-> es]
TObject == [kind |-> "object", val |-> NoVal, elems |-> << >>]
TNumber == [kind |-> "number", val |-> NoVal, elems |-> << >>]

\* The predicates the host registers as triggers, by name: a function of
\* the sender returning a boolean.
PredicateHolds(p, sender) ==
    IF p = "always" THEN TRUE
    ELSE IF p = "isB" THEN sender = "B"
    ELSE FALSE

\* _matchTrigger(trigger, sender): "true", "false", or the error thrown.
\* A class (Agent itself) is a function, so it is called like a predicate,
\* and calling a class constructor without `new` throws a TypeError.
RECURSIVE MatchSome(_, _, _)
MatchTrigger(trigger, sender) ==
    IF trigger.kind = "null" THEN (IF sender = Null THEN "true" ELSE "false")
    ELSE IF trigger.kind = "string"
         THEN (IF sender = Null THEN "TypeError"
               ELSE IF trigger.val = NameOf(sender) THEN "true" ELSE "false")
    ELSE IF trigger.kind = "class" THEN "TypeError"
    ELSE IF trigger.kind = "predicate"
         THEN (IF PredicateHolds(trigger.val, sender) THEN "true" ELSE "false")
    ELSE IF trigger.kind = "list" THEN MatchSome(trigger.elems, 1, sender)
    ELSE IF trigger.kind = "agent"
         THEN (IF trigger.val = sender THEN "true" ELSE "false")
    ELSE "Error"

\* Array.prototype.some over the elements of a list trigger, left to right
MatchSome(elems, i, sender) ==
    IF i > Len(elems) THEN "false"
    ELSE LET r == MatchTrigger(elems[i], sender)
         IN  IF r = "false" THEN MatchSome(elems, i + 1, sender) ELSE r

\* The number of elements of a list trigger that trigger.some calls
\* _matchTrigger on, from element i on: it stops at the first element
\* that matches or throws
RECURSIVE TriedFrom(_, _, _)
TriedFrom(elems, i, sender) ==
    IF i > Len(elems) THEN 0
    ELSE IF MatchTrigger(elems[i], sender) = "false"
    THEN 1 + TriedFrom(elems, i + 1, sender)
    ELSE 1

----------------------------------------------------------------------------
(* The reply registry *)

\* A config as registerReply is handed it: null, or an object with a
\* number under `count` (Undef when the key is absent) and, when `state`
\* is "shared", a second object under `state`. The content of that second
\* object is kept in the `shared` field of the reply tuple, since the
\* tuple's config and initConfig both refer to it.
Config(count, state) == [kind |-> "object", count |-> count, state |-> state]

NoConfig == [kind |-> "null", count |-> Undef, state |-> "none"]

\* {...config}: a new object with the own keys of config, the values
\* copied as they are (an object value stays the same object); the spread
\* of null is the empty object
Spread(config) ==
    IF config.kind = "null" THEN Config(Undef, "none")
    ELSE Config(config.count, config.state)

\* The type check at the head of registerReply
RegisterAccepts(trigger) == trigger.kind # "number"

\* Array.prototype.splice(position, 0, item)
Splice(list, position, item) ==
    LET n == Len(list)
        start == IF position < 0
                 THEN (IF n + position < 0 THEN 0 ELSE n + position)
                 ELSE (IF position > n THEN n ELSE position)
    IN  SubSeq(list, 1, start) \o <<item>> \o SubSeq(list, start + 1, n)

\* A registration that pushes the tuple at the end, whatever the position
RegisterReplyListAtEnd(list, id, trigger, replyFunc, position, config, resetConfig) ==
    Append(list,
           [id |-> id, trigger |-> trigger, replyFunc |-> replyFunc,
            config |-> Spread(config), initConfig |-> config,
            resetConfig |-> resetConfig, shared |-> 0])

\* registerReply(trigger, replyFunc, position, config, resetConfig) on the
\* list; `id` is the identity of the tuple object it creates.
RegisterReplyList(list, id, trigger, replyFunc, position, config, resetConfig) ==
    Splice(list, position,
           [id |-> id, trigger |-> trigger, replyFunc |-> replyFunc,
            config |-> Spread(config), initConfig |-> config,
            resetConfig |-> resetConfig, shared |-> 0])

\* The strategies, named by the function object: the five bound methods
\* the constructor registers, and the functions the host registers.
GenerateOAIReply == "generateOAIReply"
GenerateCodeExecutionReply == "generateCodeExecutionReply"
GenerateFunctionCallReply == "generateFunctionCallReply"
GenerateAsyncFunctionCallReply == "generateAsyncFunctionCallReply"
CheckTerminationAndHumanReply == "checkTerminationAndHumanReply"

BoundMethods ==
    { GenerateOAIReply, GenerateCodeExecutionReply, GenerateFunctionCallReply,
      GenerateAsyncFunctionCallReply, CheckTerminationAndHumanReply }

SyncFinal == "syncFinal"
SyncNotFinal == "syncNotFinal"
AsyncFinal == "asyncFinal"
SyncCounting == "syncCounting"

\* The functions declared async: calling one returns a Promise
AsyncFunctions ==
    { GenerateAsyncFunctionCallReply, CheckTerminationAndHumanReply, AsyncFinal }

BuiltinTrigger == TList(<<TClass, TNull>>)

\* The five registerReply calls of the constructor, each at position 0
ConstructorReplyFuncList ==
    LET l1 == RegisterReplyList(<< >>, 1, BuiltinTrigger, GenerateOAIReply, 0, NoConfig, Null)
        l2 == RegisterReplyList(l1, 2, BuiltinTrigger, GenerateCodeExecutionReply, 0, NoConfig, Null)
        l3 == RegisterReplyList(l2, 3, BuiltinTrigger, GenerateFunctionCallReply, 0, NoConfig, Null)
        l4 == RegisterReplyList(l3, 4, BuiltinTrigger, GenerateAsyncFunctionCallReply, 0, NoConfig, Null)
    IN  RegisterReplyList(l4, 5, BuiltinTrigger, CheckTerminationAndHumanReply, 0, NoConfig, Null)

----------------------------------------------------------------------------
(* Strategies as the dispatch loops call them *)

\* The result of one strategy call once it has settled
Returned(final, payload) == [err |-> "none", final |-> final, payload |-> payload]
Thrown(e) == [err |-> e, final |-> FALSE, payload |-> Null]

\* The loops call replyFunc(this, messages, sender, config), while the five
\* bound methods are declared (messages, sender, config): inside them
\* `messages` is the agent, `sender` is the history and `config` is the
\* dispatch's sender. What each then does:
\*  - generateOAIReply: client = config ?? this.client; with an absent
\*    sender that is this.client, null for llmConfig === false (the only
\*    llmConfig the constructor completes with), so [false, null]; with a
\*    sender, messages.at is not a function;
\*  - generateCodeExecutionReply: the scan starts at Math.max(NaN, 0), the
\*    loop body never runs, [false, null];
\*  - generateFunctionCallReply, generateAsyncFunctionCallReply:
\*    messages.at is not a function;
\*  - checkTerminationAndHumanReply: `message` is undefined; only under
\*    ALWAYS with a history and a non-empty human input does it return
\*    without evaluating _isTerminationMsg(undefined). The counter it then
\*    resets is keyed by the history array, not by an agent.
BoundCall(name, mode, messages, sender, human) ==
    IF name = "generateOAIReply"
    THEN (IF sender = Null THEN Returned(FALSE, Null) ELSE Thrown("TypeError"))
    ELSE IF name = "generateCodeExecutionReply" THEN Returned(FALSE, Null)
    ELSE IF name \in {"generateFunctionCallReply", "generateAsyncFunctionCallReply"}
    THEN Thrown("TypeError")
    ELSE IF mode = "ALWAYS" /\ messages.given /\ Truthy(human)
         THEN Returned(TRUE, IF human = "exit" THEN Null ELSE human)
         ELSE Thrown("TypeError")

\* What a function registered by the host writes into the config it is
\* handed (the tuple's config object): syncCounting sets config.count and,
\* when the config holds a second object, a key of that object; the other
\* functions write nothing.
WriteConfig(e) ==
    IF e.replyFunc = SyncCounting
    THEN [e EXCEPT !.config = Config(2, e.config.state),
                   !.shared = IF e.config.state = "shared" THEN 1 ELSE @]
    ELSE e

\* The list after a dispatch: the tuples whose strategy ran to its end
\* hold what the strategy wrote
Written(list, invoked) ==
    [i \in 1..Len(list) |->
       IF \E j \in 1..Len(invoked) :
            invoked[j].id = list[i].id /\ invoked[j].gave \in {"final", "notfinal"}
       THEN WriteConfig(list[i])
       ELSE list[i]]

\* The pair a function registered by the host returns (or resolves to)
HostFunction(name) ==
    IF name = SyncFinal THEN Returned(TRUE, "r1")
    ELSE IF name = AsyncFinal THEN Returned(TRUE, "r2")
    ELSE Returned(FALSE, Null)

\* replyFunc(this, messages, sender, config), settled
InvokeStrategy(strategy, mode, messages, sender, human) ==
    IF strategy \in BoundMethods
    THEN BoundCall(strategy, mode, messages, sender, human)
    ELSE HostFunction(strategy)

\* What the loop makes of one call. generateReply destructures the value
\* returned at once, and the Promise an async function returns is not
\* iterable; aGenerateReply awaits it first.
CallInLoop(strategy, isAsync, mode, messages, sender, human) ==
    IF ~isAsync /\ strategy \in AsyncFunctions
    THEN Thrown("TypeError")
    ELSE InvokeStrategy(strategy, mode, messages, sender, human)

\* A dispatch that skips nothing
ExcludedNever(exclude, replyFunc) == FALSE

\* `exclude && exclude.includes(replyFunc)`; a null exclude is the empty set
Excluded(exclude, replyFunc) == replyFunc \in exclude

\* The for-loop of generateReply (isAsync = FALSE) and of aGenerateReply
\* (isAsync = TRUE) from the i-th tuple on. `considered` are the tuples
\* whose trigger was tested, `invoked` the tuples whose strategy was called,
\* each with what the call gave.
RECURSIVE DispatchFrom(_, _, _, _, _, _, _, _, _)
DispatchFrom(st, list, i, messages, sender, exclude, isAsync, human, acc) ==
    IF i > Len(list)
    THEN [err |-> "none", reply |-> st.defaultAutoReply,
          considered |-> acc.considered, invoked |-> acc.invoked]
    ELSE
    LET e == list[i]
    IN  IF Excluded(exclude, e.replyFunc)
        THEN DispatchFrom(st, list, i + 1, messages, sender, exclude, isAsync, human, acc)
        ELSE
        LET m == MatchTrigger(e.trigger, sender)
            seen == Append(acc.considered, e.id)
        IN  IF m \in {"TypeError", "Error"}
            THEN [err |-> m, reply |-> NoVal,
                  considered |-> seen, invoked |-> acc.invoked]
            ELSE IF m = "false"
            THEN DispatchFrom(st, list, i + 1, messages, sender, exclude, isAsync, human,
                              [considered |-> seen, invoked |-> acc.invoked])
            ELSE
            LET r == CallInLoop(e.replyFunc, isAsync, st.humanInputMode,
                                messages, sender, human)
                called == Append(acc.invoked,
                                 [id |-> e.id,
                                  gave |-> IF r.err # "none" THEN r.err
                                           ELSE IF r.final THEN "final" ELSE "notfinal"])
            IN  IF r.err # "none"
                THEN [err |-> r.err, reply |-> NoVal,
                      considered |-> seen, invoked |-> called]
                ELSE IF r.final
                THEN [err |-> "none", reply |-> r.payload,
                      considered |-> seen, invoked |-> called]
                ELSE DispatchFrom(st, list, i + 1, messages, sender, exclude, isAsync,
                                  human, [considered |-> seen, invoked |-> called])

\* generateReply / aGenerateReply(messages, sender, exclude): the guard on
\* the arguments, the default of `messages`, then the loop.
GenerateReplyOutcome(st, store, list, messages, sender, exclude, isAsync, human) ==
    IF ~messages.given /\ sender = Null
    THEN [err |-> "Error", reply |-> NoVal, considered |-> << >>, invoked |-> << >>]
    ELSE
    LET msgs == IF messages.given THEN messages
                ELSE IF sender \in DOMAIN store
                     THEN [given |-> TRUE, arr |-> store[sender]]
                     ELSE [given |-> FALSE, arr |-> << >>]
    IN  DispatchFrom(st, list, 1, msgs, sender, exclude, isAsync, human,
                     [considered |-> << >>, invoked |-> << >>])

----------------------------------------------------------------------------
(* The termination / human-interrupt strategy, called with its own
   parameter order (messages, sender) *)

\* this._isTerminationMsg(message): "true", "false" or the error thrown.
\* The default predicate is x => x.get("content") === "TERMINATE"; the
\* stored messages are plain objects, which have no get method, so it
\* throws a TypeError on every message. A predicate handed to the
\* constructor is taken to read x.content, and throws on undefined only.
IsTerminationMsg(pred, messages) ==
    IF pred = "default" \/ Len(messages) = 0 THEN "TypeError"
    ELSE IF messages[Len(messages)].content = "TERMINATE" THEN "true" ELSE "false"

\* The reply the strategy decides on (lines 397-417), with the number of
\* human-input prompts made; `count` and `ceiling` are the two numbers it
\* compares.
DecideReply(st, count, ceiling, messages, human) ==
    LET term == IsTerminationMsg(st.isTerminationMsg, messages)
        asked == [err |-> IF Truthy(human) \/ term # "TypeError" THEN "none" ELSE "TypeError",
                  reply |-> IF Truthy(human) THEN human
                            ELSE IF term = "true" THEN "exit" ELSE "",
                  prompts |-> 1]
    IN  IF st.humanInputMode = "ALWAYS" THEN asked
        ELSE IF JsGe(count, ceiling)
        THEN (IF st.humanInputMode = "NEVER"
              THEN [err |-> "none", reply |-> "exit", prompts |-> 0]
              ELSE IF term = "TypeError"
              THEN [err |-> "TypeError", reply |-> "", prompts |-> 0]
              ELSE asked)
        ELSE IF term = "TypeError"
        THEN [err |-> "TypeError", reply |-> "", prompts |-> 0]
        ELSE [err |-> "none", reply |-> IF term = "true" THEN "exit" ELSE "",
              prompts |-> 0]

\* checkTerminationAndHumanReply(messages, sender) with the ceiling it is
\* to compare against: what it returns and the counter Map afterwards
\* (lines 419-438).
TerminationWithCeiling(st, counters, ceiling, messages, sender, human) ==
    LET count == MapGetNum(counters, sender)
        d == DecideReply(st, count, ceiling, messages, human)
    IN  IF d.err # "none"
        THEN [err |-> d.err, final |-> FALSE, payload |-> Null, reply |-> d.reply,
              prompts |-> d.prompts, counters |-> counters]
        ELSE IF d.reply = "exit"
        THEN [err |-> "none", final |-> TRUE, payload |-> Null, reply |-> d.reply,
              prompts |-> d.prompts, counters |-> MapSet(counters, sender, 0)]
        ELSE IF Truthy(d.reply) \/ ceiling = 0
        THEN [err |-> "none", final |-> TRUE, payload |-> d.reply, reply |-> d.reply,
              prompts |-> d.prompts, counters |-> MapSet(counters, sender, 0)]
        ELSE [err |-> "none", final |-> FALSE, payload |-> Null, reply |-> d.reply,
              prompts |-> d.prompts,
              counters |-> MapSet(counters, sender, JsAdd(count, 1))]

\* The ceiling the strategy reads: this._maxConsecutiveAutoReplyDict.get(sender)
CeilingRead(dict, global, sender) == MapGetNum(dict, sender)

\* checkTerminationAndHumanReply(messages, sender): `messages` defaults to
\* the stored history, and reading the length of an undefined history
\* throws before anything else happens.
CheckTerminationOutcome(st, counters, dict, global, store, messages, sender, human) ==
    IF ~messages.given /\ sender \notin DOMAIN store
    THEN [err |-> "TypeError", final |-> FALSE, payload |-> Null, reply |-> "",
          prompts |-> 0, counters |-> counters]
    ELSE TerminationWithCeiling(st, counters, CeilingRead(dict, global, sender),
                                IF messages.given THEN messages.arr ELSE store[sender],
                                sender, human)

\* The reply aCheckTerminationAndHumanReply decides on (lines 452-475):
\* as DecideReply, except that below the ceiling a termination message
\* forces "exit" under NEVER only; under TERMINATE the human is asked and
\* an empty input becomes "exit".
ADecideReply(st, count, ceiling, messages, human) ==
    LET term == IsTerminationMsg(st.isTerminationMsg, messages)
        asked == [err |-> IF Truthy(human) \/ term # "TypeError" THEN "none" ELSE "TypeError",
                  reply |-> IF Truthy(human) THEN human
                            ELSE IF term = "true" THEN "exit" ELSE "",
                  prompts |-> 1]
    IN  IF st.humanInputMode = "ALWAYS" THEN asked
        ELSE IF JsGe(count, ceiling)
        THEN (IF st.humanInputMode = "NEVER"
              THEN [err |-> "none", reply |-> "exit", prompts |-> 0]
              ELSE IF term = "TypeError"
              THEN [err |-> "TypeError", reply |-> "", prompts |-> 0]
              ELSE asked)
        ELSE IF term = "TypeError"
        THEN [err |-> "TypeError", reply |-> "", prompts |-> 0]
        ELSE IF term = "false"
        THEN [err |-> "none", reply |-> "", prompts |-> 0]
        ELSE IF st.humanInputMode = "NEVER"
        THEN [err |-> "none", reply |-> "exit", prompts |-> 0]
        ELSE [err |-> "none", reply |-> IF Truthy(human) THEN human ELSE "exit",
              prompts |-> 1]

\* aCheckTerminationAndHumanReply(messages, sender) with the ceiling it is
\* to compare against (lines 481-492)
ATerminationWithCeiling(st, counters, ceiling, messages, sender, human) ==
    LET count == MapGetNum(counters, sender)
        d == ADecideReply(st, count, ceiling, messages, human)
    IN  IF d.err # "none"
        THEN [err |-> d.err, final |-> FALSE, payload |-> Null, reply |-> d.reply,
              prompts |-> d.prompts, counters |-> counters]
        ELSE IF d.reply = "exit"
        THEN [err |-> "none", final |-> TRUE, payload |-> Null, reply |-> d.reply,
              prompts |-> d.prompts, counters |-> MapSet(counters, sender, 0)]
        ELSE IF Truthy(d.reply) \/ ceiling = 0
        THEN [err |-> "none", final |-> TRUE, payload |-> d.reply, reply |-> d.reply,
              prompts |-> d.prompts, counters |-> MapSet(counters, sender, 0)]
        ELSE [err |-> "none", final |-> FALSE, payload |-> Null, reply |-> d.reply,
              prompts |-> d.prompts,
              counters |-> MapSet(counters, sender, JsAdd(count, 1))]

\* aCheckTerminationAndHumanReply(messages, sender)
ACheckTerminationOutcome(st, counters, dict, global, store, messages, sender, human) ==
    IF ~messages.given /\ sender \notin DOMAIN store
    THEN [err |-> "TypeError", final |-> FALSE, payload |-> Null, reply |-> "",
          prompts |-> 0, counters |-> counters]
    ELSE ATerminationWithCeiling(st, counters, CeilingRead(dict, global, sender),
                                 IF messages.given THEN messages.arr ELSE store[sender],
                                 sender, human)

\* maxConsecutiveAutoReply(sender)
MaxConsecutiveAutoReplyOf(dict, global, sender) ==
    IF sender = Null THEN global ELSE MapGetNum(dict, sender)

\* updateMaxConsecutiveAutoReply(value, sender): the dict afterwards
UpdateMaxDict(dict, value, sender) ==
    IF sender = Null THEN [k \in DOMAIN dict |-> value]
    ELSE MapSet(dict, sender, value)

\* resetConsecutiveAutoReplyCounter(sender): the counter Map afterwards
ResetCounters(counters, sender) ==
    IF sender = Null THEN EmptyMap ELSE MapSet(counters, sender, 0)

----------------------------------------------------------------------------
(* Function execution *)

\* The texts are sequences of characters. The argument texts a function
\* call carries:
ArgsObject == << "{", "\"", "a", "\"", ":", "2", ",", "\"", "b", "\"", ":", "3", "}" >>
ArgsArray == << "[", "2", ",", "3", "]" >>
ArgsArrayOnTwoLines == << "[", "2", ",", "\n", "3", "]" >>
ArgsTruncated == << "{", "\"", "a", "\"", ":", "1", "," >>
ArgsArrayTruncated == << "[", "2", "," >>
ArgsNull == << "n", "u", "l", "l" >>
ArgsEmptyArray == << "[", "]" >>
ArgsEmptyObject == << "{", "}" >>

\* The loop of formatJsonStr from the i-th character on: a newline outside
\* quotes is dropped, a newline or a tab inside quotes is replaced by its
\* escape, a quote not preceded by a backslash toggles insideQuotes.
RECURSIVE FormatJsonFrom(_, _, _, _, _)
FormatJsonFrom(jstr, i, insideQuotes, lastChar, result) ==
    IF i > Len(jstr) THEN result
    ELSE LET char == jstr[i]
             inside == IF lastChar # "\\" /\ char = "\"" THEN ~insideQuotes
                       ELSE insideQuotes
         IN  IF ~inside /\ char = "\n"
             THEN FormatJsonFrom(jstr, i + 1, inside, char, result)
             ELSE FormatJsonFrom(jstr, i + 1, inside, char,
                    Append(result,
                           IF inside /\ char = "\n" THEN "\\n"
                           ELSE IF inside /\ char = "\t" THEN "\\t"
                           ELSE char))

\* ConversableAgent.formatJsonStr(jstr)
FormatJsonStr(jstr) == FormatJsonFrom(jstr, 1, FALSE, " ", << >>)

DigitValue ==
    [c \in {"0", "1", "2", "3", "4", "5", "6", "7", "8", "9"} |->
       CASE c = "0" -> 0 [] c = "1" -> 1 [] c = "2" -> 2 [] c = "3" -> 3
         [] c = "4" -> 4 [] c = "5" -> 5 [] c = "6" -> 6 [] c = "7" -> 7
         [] c = "8" -> 8 [] c = "9" -> 9]

IsDigit(c) == c \in DOMAIN DigitValue

IsLetter(c) == c \in {"a", "b", "c"}

\* What JSON.parse gives
Parsed(kind, elems, keys) == [err |-> "none", kind |-> kind, elems |-> elems, keys |-> keys]
SyntaxError == [err |-> "SyntaxError", kind |-> "none", elems |-> << >>, keys |-> << >>]

\* A JSON.parse that takes every text for the empty object
JsonParseLenient(text) == Parsed("object", << >>, << >>)

\* JSON.parse on the texts made of null, a digit, an array of digits or an
\* object of one-letter keys with digit values, without white space; any
\* other text of these characters is not JSON.
JsonParse(text) ==
    LET n == Len(text)
        inner == SubSeq(text, 2, n - 1)
        m == Len(inner)
    IN  IF text = << "n", "u", "l", "l" >> THEN Parsed("null", << >>, << >>)
        ELSE IF n = 1 /\ IsDigit(text[1])
        THEN Parsed("number", << DigitValue[text[1]] >>, << >>)
        ELSE IF n >= 2 /\ text[1] = "[" /\ text[n] = "]"
        THEN (IF m = 0 THEN Parsed("array", << >>, << >>)
              ELSE IF /\ m % 2 = 1
                      /\ \A i \in 1..m :
                           IF i % 2 = 1 THEN IsDigit(inner[i]) ELSE inner[i] = ","
              THEN Parsed("array",
                          [k \in 1..((m + 1) \div 2) |-> DigitValue[inner[2 * k - 1]]],
                          << >>)
              ELSE SyntaxError)
        ELSE IF n >= 2 /\ text[1] = "{" /\ text[n] = "}"
        THEN (IF m = 0 THEN Parsed("object", << >>, << >>)
              ELSE IF /\ m % 6 = 5
                      /\ \A i \in 1..m :
                           CASE i % 6 = 1 -> inner[i] = "\""
                             [] i % 6 = 2 -> IsLetter(inner[i])
                             [] i % 6 = 3 -> inner[i] = "\""
                             [] i % 6 = 4 -> inner[i] = ":"
                             [] i % 6 = 5 -> IsDigit(inner[i])
                             [] i % 6 = 0 -> inner[i] = ","
              THEN Parsed("object",
                          [k \in 1..((m + 1) \div 6) |-> DigitValue[inner[6 * k - 1]]],
                          [k \in 1..((m + 1) \div 6) |-> inner[6 * k - 4]])
              ELSE SyntaxError)
        ELSE SyntaxError

\* String(n) of a natural number
RECURSIVE NumToString(_)
NumToString(n) ==
    LET digits == << "0", "1", "2", "3", "4", "5", "6", "7", "8", "9" >>
    IN  IF n < 10 THEN digits[n + 1]
        ELSE NumToString(n \div 10) \o digits[(n % 10) + 1]

\* The functions the host puts in the function map, by name:
\* add is (a, b) => a + b, addLater is async (a, b) => a + b,
\* boom is () => { throw new Error("boom") }.
HostFunctionNames == { "add", "addLater", "boom" }

\* The names every plain object answers to through Object.prototype
ObjectPrototypeNames == { "toString" }

\* this._functionMap[funcName]: the own property, else the property
\* inherited from Object.prototype, else undefined
LookupFunction(functionMap, funcName) ==
    IF funcName \in functionMap THEN funcName
    ELSE IF funcName \in ObjectPrototypeNames THEN funcName
    ELSE NoVal

\* func(...args), with String() of what it returns: spreading a value
\* that is not iterable (an object, a number) throws a TypeError before
\* the function is entered; add with fewer than two numbers gives NaN;
\* Object.prototype.toString called with no receiver gives
\* "[object Undefined]"; an async function returns a Promise, which only
\* aExecuteFunction awaits.
CallFunction(func, args, isAsync) ==
    IF args.kind # "array"
    THEN [err |-> "TypeError: Spread syntax requires ...iterable[Symbol.iterator] to be a function",
          content |-> NoVal, entered |-> FALSE]
    ELSE IF func = "boom"
    THEN [err |-> "Error: boom", content |-> NoVal, entered |-> TRUE]
    ELSE IF func = "toString"
    THEN [err |-> "none", content |-> "[object Undefined]", entered |-> TRUE]
    ELSE IF func = "addLater" /\ ~isAsync
    THEN [err |-> "none", content |-> "[object Promise]", entered |-> TRUE]
    ELSE [err |-> "none",
          content |-> IF Len(args.elems) >= 2
                      THEN NumToString(args.elems[1] + args.elems[2])
                      ELSE "NaN",
          entered |-> TRUE]

\* The role-function message both functions return
FunctionMessage(funcName, content) == ObjMsg(content, NoVal, funcName, NoVal, "function")

\* executeFunction(funcCall) (isAsync = FALSE) and aExecuteFunction
\* (isAsync = TRUE) with funcCall = {name, args}: the success flag, the
\* message returned and whether the function was entered.
ExecuteFunctionOutcome(functionMap, name, args, isAsync) ==
    LET funcName == IF Truthy(name) THEN name ELSE ""
        func == LookupFunction(functionMap, funcName)
        inputString == FormatJsonStr(IF args = << >> THEN ArgsEmptyObject ELSE args)
        parsed == JsonParse(inputString)
        call == CallFunction(func, parsed, isAsync)
        result(ok, content, entered) ==
            [success |-> ok, message |-> FunctionMessage(funcName, content),
             called |-> entered]
    IN  IF func = NoVal
        THEN result(FALSE, "Error: Function " \o funcName \o " not found.", FALSE)
        ELSE IF parsed.err # "none"
        THEN result(FALSE,
                    "Error: SyntaxError: Unexpected end of JSON input\n Your argument should follow JSON format.",
                    FALSE)
        ELSE IF parsed.kind = "null"
        THEN result(FALSE, "undefined", FALSE)
        ELSE IF call.err # "none"
        THEN result(FALSE, "Error: " \o call.err, call.entered)
        ELSE result(TRUE, call.content, TRUE)

\* registerFunction(functionMap): the own names afterwards
RegisterFunctionMap(functionMap, names) == functionMap \cup names

----------------------------------------------------------------------------
(* The function-call reply strategy *)

\* A call as the strategies hand it to executeFunction: {name, args}
FuncCall(name, args) == [name |-> name, args |-> args]

\* A message of a history the host passes that carries the key functionCall
CallingMsg(fc) ==
    [content |-> NoVal, function_call |-> NoVal, name |-> NoVal,
     context |-> NoVal, role |-> "assistant", functionCall |-> fc]

\* message.functionCall: the key generateFunctionCallReply reads. The
\* messages _appendOaiMessage stores carry the key function_call and
\* never the key functionCall.
HasFunctionCall(message) == "functionCall" \in DOMAIN message

\* generateFunctionCallReply(messages, sender): `messages` defaults to
\* the stored history; messages.at(-1) of an undefined history and
\* message.functionCall of an undefined message throw.
GenerateFunctionCallReplyOutcome(functionMap, store, messages, sender) ==
    LET arr == IF messages.given THEN messages.arr
               ELSE IF sender \in DOMAIN store THEN store[sender] ELSE << >>
        none == [err |-> "none", final |-> FALSE, out |-> NoMsg, payload |-> Null,
                 called |-> FALSE]
    IN  IF (~messages.given /\ sender \notin DOMAIN store) \/ Len(arr) = 0
        THEN [none EXCEPT !.err = "TypeError"]
        ELSE IF HasFunctionCall(arr[Len(arr)])
        THEN LET fc == arr[Len(arr)].functionCall
                 r == ExecuteFunctionOutcome(functionMap, fc.name, fc.args, FALSE)
             IN  [err |-> "none", final |-> TRUE, out |-> r.message,
                  payload |-> r.message.content, called |-> r.called]
        ELSE none

----------------------------------------------------------------------------
(* The code-execution reply strategy *)

\* A code execution config: null, false, or an object whose lastNMessages
\* is absent (Undef), a count, or "auto" (AutoScan)
AutoScan == 0 - 3
CodeConfigNull == [kind |-> "null", lastNMessages |-> Undef]
CodeConfigFalse == [kind |-> "false", lastNMessages |-> Undef]
CodeConfig(lastN) == [kind |-> "object", lastNMessages |-> lastN]

\* The language extractCode gives to a text without a fenced code block
UNKNOWN == "unknown"

\* Message contents: a fenced block of Python, of shell, of a language
\* executeCodeBlocks does not know, and two blocks in one message. The
\* fence of three backquotes is written ''' here.
PyBlock == "'''python\nprint(1)\n'''"
ShBlock == "'''sh\nls\n'''"
RubyBlock == "'''ruby\nputs 1\n'''"
TwoBlocks == "'''ruby\nputs 1\n'''\n'''lua\nprint(1)\n'''"

\* extractCode(text): the (language, code) pairs of the fenced code blocks
\* of the text, or the single pair (UNKNOWN, text) when it has none
ExtractCode(text) ==
    IF text = PyBlock THEN << <<"python", "print(1)">> >>
    ELSE IF text = ShBlock THEN << <<"sh", "ls">> >>
    ELSE IF text = RubyBlock THEN << <<"ruby", "puts 1">> >>
    ELSE IF text = TwoBlocks THEN << <<"ruby", "puts 1">>, <<"lua", "print(1)">> >>
    ELSE << <<UNKNOWN, text>> >>

\* The languages executeCodeBlocks hands to runCode
RunLanguages == { "bash", "shell", "sh", "python", "Python" }

\* logsAll after the blocks from i on, none of them in a run language:
\* each adds "\n" + `unknown language ${lang}`
RECURSIVE UnknownLogs(_, _)
UnknownLogs(codeBlocks, i) ==
    IF i > Len(codeBlocks) THEN ""
    ELSE "\nunknown language " \o codeBlocks[i][1] \o UnknownLogs(codeBlocks, i + 1)

\* executeCodeBlocks(codeBlocks): a block in a run language is handed to
\* this.runCode(code, lang, ...this._codeExecutionConfig), and spreading
\* the config, an object or false, throws a TypeError before runCode is
\* entered; a block in any other language gives exitcode 1 and the log
\* line "unknown language".
ExecuteCodeBlocks(codeBlocks) ==
    IF \E i \in 1..Len(codeBlocks) : codeBlocks[i][1] \in RunLanguages
    THEN [err |-> "TypeError", exitcode |-> 0, logs |-> ""]
    ELSE [err |-> "none", exitcode |-> 1, logs |-> UnknownLogs(codeBlocks, 1)]

\* The number of trailing messages of role user (lines 329-337)
RECURSIVE TrailingUsers(_, _)
TrailingUsers(messages, i) ==
    IF i < 1 \/ messages[i].role # "user" THEN 0
    ELSE 1 + TrailingUsers(messages, i - 1)

\* The scan of lines 341-356 from index i on: the first message with
\* content whose code blocks are not the single UNKNOWN pair is executed.
RECURSIVE ScanForCode(_, _)
ScanForCode(messages, i) ==
    IF i > Len(messages)
    THEN [err |-> "none", final |-> FALSE, payload |-> Null, found |-> 0]
    ELSE LET content == messages[i].content
             codeBlocks == ExtractCode(content)
             x == ExecuteCodeBlocks(codeBlocks)
         IN  IF ~Truthy(content) THEN ScanForCode(messages, i + 1)
             ELSE IF Len(codeBlocks) = 1 /\ codeBlocks[1][1] = UNKNOWN
             THEN ScanForCode(messages, i + 1)
             ELSE IF x.err # "none"
             THEN [err |-> x.err, final |-> FALSE, payload |-> Null, found |-> i]
             ELSE [err |-> "none", final |-> TRUE,
                   payload |-> "exitcode: " \o NumToString(x.exitcode)
                               \o (IF x.exitcode = 0 THEN " (execution succeeded)"
                                   ELSE " (execution failed)")
                               \o "\nCode output: " \o x.logs,
                   found |-> i]

\* Math.max(a, 0)
MaxZero(a) == IF a > 0 THEN a ELSE 0

\* generateCodeExecutionReply(messages, sender, config) of an agent whose
\* _codeExecutionConfig is `own`: what it returns or throws, the index of
\* the message it executed, and `own` afterwards (the strategy writes
\* lastNMessages back into the config it used, unless it threw).
GenerateCodeExecutionReplyOutcome(own, store, messages, sender, config) ==
    LET codeExecutionConfig == IF config.kind # "null" THEN config ELSE own
        arr == IF messages.given THEN messages.arr
               ELSE IF sender \in DOMAIN store THEN store[sender] ELSE << >>
        lastNMessages == IF codeExecutionConfig.lastNMessages = Undef THEN 1
                         ELSE codeExecutionConfig.lastNMessages
        messagesToScan == IF lastNMessages = AutoScan
                          THEN TrailingUsers(arr, Len(arr))
                          ELSE lastNMessages
        s == ScanForCode(arr, MaxZero(Len(arr) - messagesToScan) + 1)
        none == [err |-> "none", final |-> FALSE, payload |-> Null, found |-> 0,
                 scanned |-> 0, own |-> own]
    IN  IF codeExecutionConfig.kind = "false" THEN none
        ELSE IF ~messages.given /\ sender \notin DOMAIN store
        THEN [none EXCEPT !.err = "TypeError"]
        ELSE [err |-> s.err, final |-> s.final, payload |-> s.payload,
              found |-> s.found, scanned |-> messagesToScan,
              own |-> IF s.err = "none" /\ config.kind = "null"
                      THEN CodeConfig(lastNMessages) ELSE own]

----------------------------------------------------------------------------
(* Construction *)

MAX_CONSECUTIVE_AUTO_REPLY == 100

\* The constructor arguments the model varies; llmConfig is false, the one
\* value with which the constructor does not reach `new OpenAIWrapper`,
\* a name the file never imports.
Args(mode, pred, ceiling, autoReply) ==
    [humanInputMode |-> mode, isTerminationMsg |-> pred,
     maxConsecutiveAutoReply |-> ceiling, defaultAutoReply |-> autoReply]

DefaultArgs == Args("TERMINATE", "default", Undef, "")

ConstructorArgs ==
    { Args(mode, pred, ceiling, "") :
        mode \in {"ALWAYS", "TERMINATE", "NEVER"},
        pred \in {"default", "custom"},
        ceiling \in {Undef, 0} }

RegistryArgs == { DefaultArgs, Args("ALWAYS", "custom", Undef, "auto") }

\* The agent of a chat: automatic, with a termination predicate of its own
ChatArgs == { Args("NEVER", "custom", 0, "auto"), DefaultArgs }

\* The state the constructor leaves, the agent "A" built with one of `choices`
Construct(choices) ==
    \E args \in choices :
      LET argsOf(a) == IF a = "A" THEN args ELSE DefaultArgs
      IN
        /\ oaiMessages = [a \in Agents |-> EmptyMap]
        /\ consecutiveAutoReplyCounter = [a \in Agents |-> EmptyMap]
        /\ maxConsecutiveAutoReplyDict = [a \in Agents |-> EmptyMap]
        /\ maxConsecutiveAutoReply =
             [a \in Agents |->
                IF argsOf(a).maxConsecutiveAutoReply = Undef
                THEN MAX_CONSECUTIVE_AUTO_REPLY
                ELSE argsOf(a).maxConsecutiveAutoReply]
        /\ replyAtReceive = [a \in Agents |-> EmptyMap]
        /\ replyFuncList = [a \in Agents |-> ConstructorReplyFuncList]
        /\ settings =
             [a \in Agents |->
                [humanInputMode |-> argsOf(a).humanInputMode,
                 isTerminationMsg |-> argsOf(a).isTerminationMsg,
                 defaultAutoReply |-> argsOf(a).defaultAutoReply,
                 functionMap |-> {},
                 codeExecutionConfig |-> CodeConfig(Undef)]]
        /\ nextId = 6
        /\ last = NoCall

\* The state the constructor leaves when the agent "A" is built with one
\* of `configs` as codeExecutionConfig and defaults otherwise
ConstructCodeExecution(configs) ==
    \E c \in configs :
        /\ oaiMessages = [a \in Agents |-> EmptyMap]
        /\ consecutiveAutoReplyCounter = [a \in Agents |-> EmptyMap]
        /\ maxConsecutiveAutoReplyDict = [a \in Agents |-> EmptyMap]
        /\ maxConsecutiveAutoReply = [a \in Agents |-> MAX_CONSECUTIVE_AUTO_REPLY]
        /\ replyAtReceive = [a \in Agents |-> EmptyMap]
        /\ replyFuncList = [a \in Agents |-> ConstructorReplyFuncList]
        /\ settings =
             [a \in Agents |->
                [humanInputMode |-> DefaultArgs.humanInputMode,
                 isTerminationMsg |-> DefaultArgs.isTerminationMsg,
                 defaultAutoReply |-> DefaultArgs.defaultAutoReply,
                 functionMap |-> {},
                 codeExecutionConfig |-> IF a = "A" THEN c ELSE CodeConfig(Undef)]]
        /\ nextId = 6
        /\ last = NoCall

Init == Construct(ConstructorArgs \cup RegistryArgs \cup ChatArgs)

----------------------------------------------------------------------------
(* The calls the host makes on the registry *)

\* The (trigger, strategy) pairs the host registers
HostReplies ==
    { <<TAgent("B"), SyncFinal>>,
      <<TPredicate("always"), SyncNotFinal>>,
      <<TList(<<TString("C"), TNull>>), AsyncFinal>>,
      <<TNumber, SyncFinal>> }

HostExcludes == { {}, {SyncFinal}, {SyncFinal, AsyncFinal} }

HostPositions == { 0, 1, 0 - 1 }

HostHistories ==
    { NoMessages,
      [given |-> TRUE,
       arr |-> << [content |-> "hi", function_call |-> NoVal, name |-> NoVal,
                   context |-> NoVal, role |-> "user"] >>] }

\* registerReply(trigger, replyFunc, position, config, resetConfig)
RegisterReply(self, trigger, replyFunc, position, config, resetConfig) ==
    /\ nextId <= 5 + MaxReg
    /\ IF RegisterAccepts(trigger)
       THEN /\ replyFuncList' =
                 [replyFuncList EXCEPT ![self] =
                    RegisterReplyList(@, nextId, trigger, replyFunc, position,
                                      config, resetConfig)]
            /\ nextId' = nextId + 1
            /\ last' = [NoCall EXCEPT !.op = "registerReply", !.self = self,
                                      !.id = nextId, !.position = position]
       ELSE /\ UNCHANGED <<replyFuncList, nextId>>
            /\ last' = [NoCall EXCEPT !.op = "registerReply", !.self = self,
                                      !.err = "Error", !.position = position]
    /\ UNCHANGED <<oaiMessages, consecutiveAutoReplyCounter,
                   maxConsecutiveAutoReplyDict, maxConsecutiveAutoReply,
                   replyAtReceive, settings>>

\* The record of a dispatch
DispatchCall(op, self, messages, sender, exclude, human, r) ==
    [NoCall EXCEPT !.op = op, !.self = self, !.peer = sender,
                   !.messages = messages, !.exclude = exclude, !.human = human,
                   !.err = r.err, !.ret = r.reply,
                   !.considered = r.considered, !.invoked = r.invoked]

\* generateReply(messages, sender, exclude)
GenerateReply(self, messages, sender, exclude, human) ==
    LET r == GenerateReplyOutcome(settings[self], oaiMessages[self],
                                  replyFuncList[self], messages, sender,
                                  exclude, FALSE, human)
    IN  /\ last' = DispatchCall("generateReply", self, messages, sender, exclude,
                                human, r)
        /\ replyFuncList' = [replyFuncList EXCEPT ![self] = Written(@, r.invoked)]
        /\ UNCHANGED <<oaiMessages, consecutiveAutoReplyCounter,
                       maxConsecutiveAutoReplyDict, maxConsecutiveAutoReply,
                       replyAtReceive, settings, nextId>>

\* aGenerateReply(messages, sender, exclude)
AGenerateReply(self, messages, sender, exclude, human) ==
    LET r == GenerateReplyOutcome(settings[self], oaiMessages[self],
                                  replyFuncList[self], messages, sender,
                                  exclude, TRUE, human)
    IN  /\ last' = DispatchCall("aGenerateReply", self, messages, sender, exclude,
                                human, r)
        /\ replyFuncList' = [replyFuncList EXCEPT ![self] = Written(@, r.invoked)]
        /\ UNCHANGED <<oaiMessages, consecutiveAutoReplyCounter,
                       maxConsecutiveAutoReplyDict, maxConsecutiveAutoReply,
                       replyAtReceive, settings, nextId>>

----------------------------------------------------------------------------
(* reset *)

\* The reset rules the host registers, by name: zeroCount is
\* config => { config.count = 0 }, countResets is
\* config => { config.count = (config.count ?? 0) + 1 }
ZeroCount == "zeroCount"
CountResets == "countResets"

\* resetConfig(config): the config object after the rule has run on it
ApplyResetConfig(rule, config) ==
    IF rule = ZeroCount THEN Config(0, config.state)
    ELSE Config(IF config.count = Undef THEN 1 ELSE config.count + 1, config.state)

\* A reset that exchanges config and initConfig instead of copying
ResetTupleExchanging(e) ==
    IF e.resetConfig # Null
    THEN [e EXCEPT !.config = ApplyResetConfig(e.resetConfig, e.config)]
    ELSE [e EXCEPT !.config = Spread(e.initConfig), !.initConfig = e.config]

\* The body of the forEach of reset() on one tuple: the custom rule when
\* there is one, a fresh spread of initConfig otherwise. The object under
\* `state` is not copied by the spread, so `shared` stays as it is.
ResetTuple(e) ==
    IF e.resetConfig # Null
    THEN [e EXCEPT !.config = ApplyResetConfig(e.resetConfig, e.config)]
    ELSE [e EXCEPT !.config = Spread(e.initConfig)]

\* The forEach of reset() over the list
ResetList(list) == [i \in 1..Len(list) |-> ResetTuple(list[i])]

\* reset(): clearHistory(), resetConsecutiveAutoReplyCounter(),
\* stopReplyAtReceive(), then the configs
Reset(self) ==
    /\ \A i \in 1..Len(replyFuncList[self]) :
         replyFuncList[self][i].resetConfig = CountResets
           => ResetTuple(replyFuncList[self][i]).config.count <= MaxCount
    /\ oaiMessages' =
         [oaiMessages EXCEPT ![self] = ClearHistoryOutcome(@, Null).store]
    /\ consecutiveAutoReplyCounter' =
         [consecutiveAutoReplyCounter EXCEPT ![self] = ResetCounters(@, Null)]
    /\ replyAtReceive' = [replyAtReceive EXCEPT ![self] = EmptyMap]
    /\ replyFuncList' = [replyFuncList EXCEPT ![self] = ResetList(@)]
    /\ last' = [NoCall EXCEPT !.op = "reset", !.self = self]
    /\ UNCHANGED <<maxConsecutiveAutoReplyDict, maxConsecutiveAutoReply,
                   settings, nextId>>

----------------------------------------------------------------------------
(* The calls the host makes on the counters and ceilings *)

HumanInputs == { "", "exit", "go" }

HostCeilings == { 0, 1 }

TerminationHistories ==
    { NoMessages,
      [given |-> TRUE,
       arr |-> << [content |-> "hi", function_call |-> NoVal, name |-> NoVal,
                   context |-> NoVal, role |-> "user"] >>],
      [given |-> TRUE,
       arr |-> << [content |-> "TERMINATE", function_call |-> NoVal, name |-> NoVal,
                   context |-> NoVal, role |-> "user"] >>] }

\* checkTerminationAndHumanReply(messages, sender), awaited
CheckTermination(self, messages, sender, human) ==
    LET r == CheckTerminationOutcome(settings[self], consecutiveAutoReplyCounter[self],
                                     maxConsecutiveAutoReplyDict[self],
                                     maxConsecutiveAutoReply[self], oaiMessages[self],
                                     messages, sender, human)
    IN  /\ MapGetNum(r.counters, sender) <= MaxCount
        /\ consecutiveAutoReplyCounter' =
             [consecutiveAutoReplyCounter EXCEPT ![self] = r.counters]
        /\ last' = [NoCall EXCEPT !.op = "checkTerminationAndHumanReply",
                                  !.self = self, !.peer = sender,
                                  !.messages = messages, !.human = human,
                                  !.err = r.err, !.final = r.final,
                                  !.ret = r.payload, !.prompts = r.prompts]
        /\ UNCHANGED <<oaiMessages, maxConsecutiveAutoReplyDict,
                       maxConsecutiveAutoReply, replyAtReceive, replyFuncList,
                       settings, nextId>>

\* aCheckTerminationAndHumanReply(messages, sender), awaited
ACheckTermination(self, messages, sender, human) ==
    LET r == ACheckTerminationOutcome(settings[self], consecutiveAutoReplyCounter[self],
                                      maxConsecutiveAutoReplyDict[self],
                                      maxConsecutiveAutoReply[self], oaiMessages[self],
                                      messages, sender, human)
    IN  /\ MapGetNum(r.counters, sender) <= MaxCount
        /\ consecutiveAutoReplyCounter' =
             [consecutiveAutoReplyCounter EXCEPT ![self] = r.counters]
        /\ last' = [NoCall EXCEPT !.op = "aCheckTerminationAndHumanReply",
                                  !.self = self, !.peer = sender,
                                  !.messages = messages, !.human = human,
                                  !.err = r.err, !.final = r.final,
                                  !.ret = r.payload, !.prompts = r.prompts]
        /\ UNCHANGED <<oaiMessages, maxConsecutiveAutoReplyDict,
                       maxConsecutiveAutoReply, replyAtReceive, replyFuncList,
                       settings, nextId>>

\* updateMaxConsecutiveAutoReply(value, sender)
UpdateMaxConsecutiveAutoReply(self, value, sender) ==
    /\ maxConsecutiveAutoReplyDict' =
         [maxConsecutiveAutoReplyDict EXCEPT ![self] = UpdateMaxDict(@, value, sender)]
    /\ maxConsecutiveAutoReply' =
         IF sender = Null THEN [maxConsecutiveAutoReply EXCEPT ![self] = value]
         ELSE maxConsecutiveAutoReply
    /\ last' = [NoCall EXCEPT !.op = "updateMaxConsecutiveAutoReply", !.self = self,
                              !.peer = sender, !.num = value]
    /\ UNCHANGED <<oaiMessages, consecutiveAutoReplyCounter, replyAtReceive,
                   replyFuncList, settings, nextId>>

\* maxConsecutiveAutoReply(sender)
MaxConsecutiveAutoReply(self, sender) ==
    /\ last' = [NoCall EXCEPT !.op = "maxConsecutiveAutoReply", !.self = self,
                              !.peer = sender,
                              !.num = MaxConsecutiveAutoReplyOf(
                                        maxConsecutiveAutoReplyDict[self],
                                        maxConsecutiveAutoReply[self], sender)]
    /\ UNCHANGED <<oaiMessages, consecutiveAutoReplyCounter,
                   maxConsecutiveAutoReplyDict, maxConsecutiveAutoReply,
                   replyAtReceive, replyFuncList, settings, nextId>>

\* resetConsecutiveAutoReplyCounter(sender)
ResetConsecutiveAutoReplyCounter(self, sender) ==
    /\ consecutiveAutoReplyCounter' =
         [consecutiveAutoReplyCounter EXCEPT ![self] = ResetCounters(@, sender)]
    /\ last' = [NoCall EXCEPT !.op = "resetConsecutiveAutoReplyCounter",
                              !.self = self, !.peer = sender]
    /\ UNCHANGED <<oaiMessages, maxConsecutiveAutoReplyDict, maxConsecutiveAutoReply,
                   replyAtReceive, replyFuncList, settings, nextId>>

----------------------------------------------------------------------------
(* The calls the host makes on the function map *)

\* registerFunction(functionMap)
RegisterFunction(self, names) ==
    /\ settings' = [settings EXCEPT ![self].functionMap = RegisterFunctionMap(@, names)]
    /\ last' = [NoCall EXCEPT !.op = "registerFunction", !.self = self]
    /\ UNCHANGED <<oaiMessages, consecutiveAutoReplyCounter,
                   maxConsecutiveAutoReplyDict, maxConsecutiveAutoReply,
                   replyAtReceive, replyFuncList, nextId>>

\* executeFunction(funcCall) and aExecuteFunction(funcCall), awaited
ExecuteFunction(op, self, name, args) ==
    LET r == ExecuteFunctionOutcome(settings[self].functionMap, name, args,
                                    op = "aExecuteFunction")
    IN  /\ last' = [NoCall EXCEPT !.op = op, !.self = self, !.name = name,
                                  !.args = args, !.final = r.success,
                                  !.out = r.message, !.called = r.called]
        /\ UNCHANGED <<oaiMessages, consecutiveAutoReplyCounter,
                       maxConsecutiveAutoReplyDict, maxConsecutiveAutoReply,
                       replyAtReceive, replyFuncList, settings, nextId>>

\* generateFunctionCallReply(messages, sender) called by the host
FunctionCallReply(self, messages, sender) ==
    LET r == GenerateFunctionCallReplyOutcome(settings[self].functionMap,
                                              oaiMessages[self], messages, sender)
    IN  /\ last' = [NoCall EXCEPT !.op = "generateFunctionCallReply",
                                  !.self = self, !.peer = sender,
                                  !.messages = messages, !.err = r.err,
                                  !.final = r.final, !.out = r.out,
                                  !.ret = r.payload, !.called = r.called]
        /\ UNCHANGED <<oaiMessages, consecutiveAutoReplyCounter,
                       maxConsecutiveAutoReplyDict, maxConsecutiveAutoReply,
                       replyAtReceive, replyFuncList, settings, nextId>>

\* generateCodeExecutionReply(messages, sender, config) called by the host
CodeExecutionReply(self, messages, sender, config) ==
    LET r == GenerateCodeExecutionReplyOutcome(settings[self].codeExecutionConfig,
                                               oaiMessages[self], messages, sender,
                                               config)
    IN  /\ settings' = [settings EXCEPT ![self].codeExecutionConfig = r.own]
        /\ last' = [NoCall EXCEPT !.op = "generateCodeExecutionReply",
                                  !.self = self, !.peer = sender,
                                  !.messages = messages, !.codeConfig = config,
                                  !.err = r.err, !.final = r.final,
                                  !.ret = r.payload, !.position = r.found,
                                  !.num = r.scanned]
        /\ UNCHANGED <<oaiMessages, consecutiveAutoReplyCounter,
                       maxConsecutiveAutoReplyDict, maxConsecutiveAutoReply,
                       replyAtReceive, replyFuncList, nextId>>

\* _matchTrigger(trigger, sender) called by the host
MatchTriggerCall(self, trigger, sender) ==
    LET r == MatchTrigger(trigger, sender)
    IN  /\ last' = [NoCall EXCEPT !.op = "_matchTrigger", !.self = self,
                                  !.peer = sender, !.trigger = trigger,
                                  !.err = IF r \in {"true", "false"} THEN "none" ELSE r,
                                  !.final = (r = "true"),
                                  !.num = TriedFrom(trigger.elems, 1, sender)]
        /\ UNCHANGED <<oaiMessages, consecutiveAutoReplyCounter,
                       maxConsecutiveAutoReplyDict, maxConsecutiveAutoReply,
                       replyAtReceive, replyFuncList, settings, nextId>>

----------------------------------------------------------------------------
(* Specifications *)

Peers == Agents \ {"A"}

NextStore ==
    \/ \E m \in RawMessages, p \in Peers : Send("A", m, p)
    \/ \E m \in RawMessages, p \in Peers : Receive("A", m, p)

NextRegistry ==
    \/ \E r \in HostReplies, pos \in HostPositions :
         RegisterReply("A", r[1], r[2], pos, NoConfig, Null)
    \/ \E h \in HostHistories, p \in Peers \cup {Null},
          x \in HostExcludes :
         GenerateReply("A", h, p, x, "go")
    \/ \E h \in HostHistories, p \in Peers \cup {Null},
          x \in HostExcludes :
         AGenerateReply("A", h, p, x, "go")

NextTermination ==
    \/ \E h \in TerminationHistories, p \in Peers, i \in HumanInputs :
         CheckTermination("A", h, p, i)
    \/ \E v \in HostCeilings, p \in Peers \cup {Null} :
         UpdateMaxConsecutiveAutoReply("A", v, p)
    \/ \E p \in Peers \cup {Null} : MaxConsecutiveAutoReply("A", p)
    \/ \E p \in Peers \cup {Null} : ResetConsecutiveAutoReplyCounter("A", p)

\* The host using the message store only
SpecStore == Construct({DefaultArgs}) /\ [][NextStore]_vars

\* The host using the registry and the dispatch loops only
SpecRegistry == Construct(RegistryArgs) /\ [][NextRegistry]_vars

\* The host using the termination strategy, the counters and the ceilings only
SpecTermination == Construct(ConstructorArgs) /\ [][NextTermination]_vars

ChatMessages ==
    { StrMsg("hi"), StrMsg(""),
      ObjMsg("TERMINATE", NoVal, NoVal, "ctx", "user") }

ChatOps == { "initiateChat", "aInitiateChat" }

NextChat ==
    \/ \E op \in ChatOps, p \in Peers, c \in BOOLEAN, m \in ChatMessages :
         InitiateChat(op, "A", p, c, m)
    \/ \E m \in ChatMessages, p \in Peers : Send("A", m, p)
    \/ \E m \in ChatMessages, p \in Peers : Receive("A", m, p)
    \/ \E p \in Peers \cup {Null} : ClearHistory("A", p)
    \/ \E p \in Peers \cup {Null} : LastMessage("A", p)
    \/ \E h \in TerminationHistories, p \in Peers :
         CheckTermination("A", h, p, "")

\* The host starting chats, sending, receiving and reading histories
SpecChat == Construct(ChatArgs) /\ [][NextChat]_vars

\* The configs and reset rules the host registers with syncCounting
HostConfigs == { NoConfig, Config(1, "none"), Config(1, "shared") }

HostResetRules == { Null, ZeroCount, CountResets }

NextReset ==
    \/ \E c \in HostConfigs, rule \in HostResetRules :
         RegisterReply("A", TAgent("B"), SyncCounting, 0, c, rule)
    \/ GenerateReply("A", NoMessages, "B", {}, "")
    \/ AGenerateReply("A", NoMessages, "B", {}, "")
    \/ \E p \in Peers : InitiateChat("initiateChat", "A", p, FALSE, StrMsg("hi"))
    \/ Reset("A")

\* The host registering strategies with configs, dispatching and resetting
SpecReset == Construct({DefaultArgs}) /\ [][NextReset]_vars

ExecuteOps == { "executeFunction", "aExecuteFunction" }

\* The names and argument texts of the function calls the host passes;
\* the empty sequence stands for a call without args
CalledNames == HostFunctionNames \cup { "missing", "toString", NoVal }

ArgsTexts ==
    { ArgsObject, ArgsArray, ArgsArrayOnTwoLines, ArgsTruncated,
      ArgsArrayTruncated, ArgsNull, ArgsEmptyArray, << >> }

NextFunction ==
    \/ \E f \in HostFunctionNames : RegisterFunction("A", {f})
    \/ \E op \in ExecuteOps, f \in CalledNames, t \in ArgsTexts :
         ExecuteFunction(op, "A", f, t)

\* The host filling the function map and executing function calls
SpecFunction == Construct({DefaultArgs}) /\ [][NextFunction]_vars

NextHistory ==
    \/ \E m \in RawMessages, p \in Peers : Send("A", m, p)
    \/ \E p \in Peers \cup {Null} : ClearHistory("A", p)
    \/ \E p \in Peers \cup {Null} : LastMessage("A", p)

\* The host sending and reading the histories back
SpecHistory == Construct({DefaultArgs}) /\ [][NextHistory]_vars

\* The histories the host passes to the function-call strategy
FunctionCallHistories ==
    { NoMessages,
      [given |-> TRUE, arr |-> << >>],
      [given |-> TRUE, arr |-> << CallingMsg(FuncCall("add", ArgsArray)) >>],
      [given |-> TRUE,
       arr |-> << [content |-> "hi", function_call |-> NoVal, name |-> NoVal,
                   context |-> NoVal, role |-> "user"] >>] }

FunctionReplyMessages ==
    { StrMsg("hi"), StrMsg(""), ObjMsg(NoVal, "call_f", NoVal, NoVal, NoVal) }

NextFunctionReply ==
    \/ \E m \in FunctionReplyMessages, p \in Peers : Send("A", m, p)
    \/ \E f \in HostFunctionNames : RegisterFunction("A", {f})
    \/ \E h \in FunctionCallHistories, p \in Peers : FunctionCallReply("A", h, p)

\* The host sending messages and asking the function-call strategy for a reply
SpecFunctionReply == Construct({DefaultArgs}) /\ [][NextFunctionReply]_vars

\* A message of a history the host passes
HostMsg(content, role) ==
    [content |-> content, function_call |-> NoVal, name |-> NoVal,
     context |-> NoVal, role |-> role]

\* The histories the host passes to the code-execution strategy
CodeHistories ==
    { NoMessages,
      [given |-> TRUE, arr |-> << >>],
      [given |-> TRUE, arr |-> << HostMsg(PyBlock, "user"), HostMsg("hi", "user"),
                                  HostMsg("hi", "user") >>],
      [given |-> TRUE, arr |-> << HostMsg(RubyBlock, "user"), HostMsg(NoVal, "user"),
                                  HostMsg("hi", "user") >>],
      [given |-> TRUE, arr |-> << HostMsg(ShBlock, "user"), HostMsg("hi", "assistant"),
                                  HostMsg("hi", "user") >>],
      [given |-> TRUE, arr |-> << HostMsg(RubyBlock, "assistant"),
                                  HostMsg(TwoBlocks, "user"), HostMsg(PyBlock, "user") >>],
      [given |-> TRUE, arr |-> << HostMsg("hi", "user"), HostMsg("hi", NoVal) >>],
      [given |-> TRUE, arr |-> << HostMsg("hi", "user"), HostMsg("hi", "user") >>] }

\* The codeExecutionConfig the agent is built with, and the config
\* argument the host passes to the strategy
BuiltCodeConfigs == { CodeConfig(Undef), CodeConfig(AutoScan), CodeConfigFalse }

PassedCodeConfigs == { CodeConfigNull, CodeConfig(AutoScan), CodeConfigFalse }

CodeMessages == { StrMsg("hi"), StrMsg(RubyBlock) }

NextCodeExecution ==
    \/ \E m \in CodeMessages, p \in Peers : Send("A", m, p)
    \/ \E h \in CodeHistories, c \in PassedCodeConfigs :
         CodeExecutionReply("A", h, "B", c)

\* The host sending messages and asking the code-execution strategy for a reply
SpecCodeExecution == ConstructCodeExecution(BuiltCodeConfigs) /\ [][NextCodeExecution]_vars

NextTerminationBoth ==
    \/ \E h \in TerminationHistories, i \in HumanInputs :
         CheckTermination("A", h, "B", i)
    \/ \E h \in TerminationHistories, i \in HumanInputs :
         ACheckTermination("A", h, "B", i)
    \/ \E v \in HostCeilings : UpdateMaxConsecutiveAutoReply("A", v, "B")

\* The host using the termination strategy and its suspension-capable
\* counterpart
SpecTerminationBoth == Construct(ConstructorArgs) /\ [][NextTerminationBoth]_vars

\* The triggers the host has matched: every shape, and the lists of one
\* and of two of them
SimpleTriggers ==
    { TNull, TString("B"), TPredicate("isB"), TAgent("B"), TAgent("C"),
      TClass, TObject, TNumber }

HostTriggers ==
    SimpleTriggers
      \cup { TList(<< >>), TList(<< TList(<< TAgent("B") >>), TNull >>) }
      \cup { TList(<< t >>) : t \in SimpleTriggers }
      \cup { TList(<< t, u >>) : t, u \in SimpleTriggers }

NextTrigger ==
    \E t \in HostTriggers, p \in Peers \cup {Null} : MatchTriggerCall("A", t, p)

\* The host matching triggers against senders
SpecTrigger == Construct({DefaultArgs}) /\ [][NextTrigger]_vars

NextAsyncReceive ==
    \/ \E m \in ChatMessages, p \in Peers : Send("A", m, p)
    \/ \E m \in ChatMessages, p \in Peers : AReceive("A", m, p)
    \/ \E h \in TerminationHistories, p \in Peers :
         ACheckTermination("A", h, p, "")

\* The host sending, starting suspension-capable receives from the two
\* peers in any order, and calling the suspension-capable termination
\* strategy
SpecAsyncReceive == Construct(ChatArgs) /\ [][NextAsyncReceive]_vars

NextReceiveReply ==
    \/ \E m \in ChatMessages, p \in Peers : Receive("A", m, p)
    \/ \E h \in TerminationHistories, i \in HumanInputs :
         CheckTermination("A", h, "B", i)
    \/ \E v \in HostCeilings : UpdateMaxConsecutiveAutoReply("A", v, "B")

\* The host receiving messages, setting ceilings and asking the
\* termination strategy for the reply to send back
SpecReceiveReply == Construct(ConstructorArgs) /\ [][NextReceiveReply]_vars

Next == NextStore \/ NextRegistry \/ NextTermination \/ NextChat \/ NextReset \/ NextFunction \/ NextHistory
          \/ NextFunctionReply \/ NextCodeExecution \/ NextTerminationBoth
          \/ NextTrigger \/ NextAsyncReceive \/ NextReceiveReply

Spec == Init /\ [][Next]_vars

----------------------------------------------------------------------------
(* Properties of the message store *)

\* The conversation with `peer` in a store, empty when there is none
HistoryWith(store, peer) == IF peer \in DOMAIN store THEN store[peer] ELSE << >>

\* C1: every raw message with non-empty content or a function-call is
\* appended on the send path and on the receive path: exactly one message
\* is added at the end of the peer's conversation, and its role is
\* assistant whenever a function-call is present.
C1_ValidMessageAppended ==
    [][ (last'.op \in {"send", "receive"} /\ AppendAccepts(MessageToDict(last'.msg)))
        => LET before == HistoryWith(oaiMessages[last'.self], last'.peer)
               after == HistoryWith(oaiMessages'[last'.self], last'.peer)
           IN  /\ Len(after) = Len(before) + 1
               /\ SubSeq(after, 1, Len(before)) = before
               /\ after[Len(after)].content = CopyKey(last'.msg.content)
               /\ Truthy(last'.msg.function_call)
                    => after[Len(after)].role = "assistant"
               /\ ~Truthy(last'.msg.function_call) /\ last'.msg.role # "function"
                    => after[Len(after)].role =
                         (IF last'.op = "send" THEN "assistant" ELSE "user") ]_vars

\* C2: a message with neither content nor a function-call is rejected by
\* send: it throws the fatal Error, the recipient's receive is not called,
\* and the sender's store is unchanged (no message, no new conversation).
C2_InvalidSendRejected ==
    [][ (last'.op = "send" /\ ~AppendAccepts(MessageToDict(last'.msg)))
        => /\ last'.err = "Error"
           /\ ~last'.received
           /\ oaiMessages' = oaiMessages ]_vars

\* A rejected send to a peer the sender holds no conversation with
C2_Witness ==
    /\ last.op = "send"
    /\ ~AppendAccepts(MessageToDict(last.msg))
    /\ last.err = "Error"
    /\ last.peer \notin DOMAIN oaiMessages[last.self]
    /\ DOMAIN oaiMessages[last.self] # {}

----------------------------------------------------------------------------
(* Properties of the registry and of dispatch *)

DispatchOps == {"generateReply", "aGenerateReply"}

\* The tuple identities of a list, in list order
IdsOf(list) == [i \in 1..Len(list) |-> list[i].id]

\* The tuple of a list with a given identity
TupleOf(list, id) == list[CHOOSE i \in 1..Len(list) : list[i].id = id]

Range(seq) == { seq[i] : i \in 1..Len(seq) }

\* `sub` lists some of the elements of `seq`, in the order of `seq`
InOrderOf(sub, seq) == sub = SelectSeq(seq, LAMBDA x : x \in Range(sub))

\* C3: a tuple registered at the default position stands before every
\* tuple registered earlier, a registration at any position keeps the
\* relative order of the tuples already in the list, and dispatch tests
\* the tuples in list order, so the newest default registration first.
C3_DefaultRegistrationFirst ==
    [][ /\ (last'.op = "registerReply" /\ last'.err = "none")
           => LET old == replyFuncList[last'.self]
                  new == replyFuncList'[last'.self]
              IN  /\ SelectSeq(new, LAMBDA e : e.id # last'.id) = old
                  /\ Len(new) = Len(old) + 1
                  /\ last'.position = 0 => new[1].id = last'.id
        /\ last'.op \in DispatchOps
           => InOrderOf(last'.considered, IdsOf(replyFuncList'[last'.self])) ]_vars

\* A dispatch that tested the tuple registered last first and the tuple
\* registered before it second
C3_Witness ==
    /\ last.op \in DispatchOps
    /\ Len(last.considered) >= 3
    /\ last.considered[1] = 7
    /\ last.considered[2] = 6

\* Whether a dispatch got past the guard on its arguments
Dispatched(call) ==
    call.op \in DispatchOps /\ (call.messages.given \/ call.peer # Null)

\* C4: within one dispatch the tuples are considered in list order; the
\* payload of the first strategy that is definitive is the result and no
\* tuple after it is invoked; when no tuple is definitive the result is
\* the configured default auto-reply.
C4_FirstDefinitiveWins ==
    Dispatched(last)
    => LET list == replyFuncList[last.self]
           n == Len(last.invoked)
       IN  /\ InOrderOf(last.considered, IdsOf(list))
           /\ \A i \in 1..n : last.invoked[i].gave = "final" => i = n
           /\ IF n > 0 /\ last.invoked[n].gave = "final"
              THEN /\ last.err = "none"
                   /\ last.ret =
                        InvokeStrategy(TupleOf(list, last.invoked[n].id).replyFunc,
                                       settings[last.self].humanInputMode,
                                       last.messages, last.peer, last.human).payload
              ELSE /\ last.err = "none"
                   /\ last.ret = settings[last.self].defaultAutoReply

\* C5: dispatch never invokes a strategy of the excluded set, and invokes
\* the others in the same order and with the same result as a dispatch
\* over the registry with the excluded tuples removed.
C5_ExcludedNeverInvoked ==
    last.op \in DispatchOps
    => LET list == replyFuncList[last.self]
           kept == SelectSeq(list, LAMBDA e : e.replyFunc \notin last.exclude)
           r == GenerateReplyOutcome(settings[last.self], oaiMessages[last.self], kept,
                                     last.messages, last.peer, {},
                                     last.op = "aGenerateReply", last.human)
       IN  /\ \A i \in 1..Len(last.invoked) :
                TupleOf(list, last.invoked[i].id).replyFunc \notin last.exclude
           /\ \A i \in 1..Len(last.considered) :
                TupleOf(list, last.considered[i]).replyFunc \notin last.exclude
           /\ r.err = last.err
           /\ r.reply = last.ret
           /\ r.invoked = last.invoked
           /\ r.considered = last.considered

\* A dispatch over a registry holding an excluded strategy ahead of a
\* strategy that was invoked
C5_Witness ==
    /\ last.op \in DispatchOps
    /\ Len(last.invoked) >= 1
    /\ LET list == replyFuncList[last.self]
       IN  \E i, j \in 1..Len(list) :
             /\ i < j
             /\ list[i].replyFunc \in last.exclude
             /\ list[j].id = last.invoked[1].id

\* C6: for the same registry, history, sender and excluded set,
\* generateReply and aGenerateReply invoke the same strategies in the same
\* order and produce the same reply.
C6_SyncAsyncAgree ==
    last.op \in DispatchOps
    => LET other == GenerateReplyOutcome(settings[last.self], oaiMessages[last.self],
                                         replyFuncList[last.self], last.messages,
                                         last.peer, last.exclude,
                                         last.op = "generateReply", last.human)
       IN  /\ other.err = last.err
           /\ other.reply = last.ret
           /\ other.invoked = last.invoked

\* The strategies of the constructor's tuples, first to last in the list
ConstructorOrder ==
    << CheckTerminationAndHumanReply, GenerateAsyncFunctionCallReply,
       GenerateFunctionCallReply, GenerateCodeExecutionReply, GenerateOAIReply >>

\* C7: after construction a dispatch for an agent sender or an absent
\* sender invokes the termination strategy first, then the function-call
\* strategies, code execution and the completion strategy in that order,
\* and nothing after a definitive termination result.
C7_BuiltinOrder ==
    (Dispatched(last) /\ nextId = 6 /\ last.exclude = {})
    => LET list == replyFuncList[last.self]
           called == [i \in 1..Len(last.invoked) |->
                        TupleOf(list, last.invoked[i].id).replyFunc]
       IN  /\ Len(called) >= 1
           /\ called[1] = CheckTerminationAndHumanReply
           /\ called = SubSeq(ConstructorOrder, 1, Len(called))
           /\ last.invoked[1].gave = "final" => Len(called) = 1

----------------------------------------------------------------------------
(* Properties of the termination strategy, the counters and the ceilings *)

TerminationOp == "checkTerminationAndHumanReply"

\* The ceiling that applies to a peer: its own when set, the agent's otherwise
EffectiveCeiling(dict, global, sender) ==
    IF sender \in DOMAIN dict THEN dict[sender] ELSE global

\* The count of a peer: zero when the peer has no counter yet
CountOf(counters, sender) ==
    IF sender \in DOMAIN counters THEN counters[sender] ELSE 0

\* C8: on every invocation of the termination strategy for a peer that
\* returns, the peer's counter is one more than before when no human input
\* was obtained and no termination occurred, and is 0 when the invocation
\* ended in "exit", obtained a non-empty reply, or ran with a ceiling of 0.
C8_CounterSteps ==
    [][ (last'.op = TerminationOp /\ last'.err = "none")
        => LET before == CountOf(consecutiveAutoReplyCounter[last'.self], last'.peer)
               after == MapGetNum(consecutiveAutoReplyCounter'[last'.self], last'.peer)
               ceiling == EffectiveCeiling(maxConsecutiveAutoReplyDict[last'.self],
                                           maxConsecutiveAutoReply[last'.self],
                                           last'.peer)
           IN  IF last'.final \/ ceiling = 0
               THEN after = 0
               ELSE after = before + 1 ]_vars

\* C9: with humanInputMode NEVER and a ceiling of 0, the strategy run on
\* the first message of a peer yields "exit": a definitive 'no further
\* message', no human input solicited, the counter 0 afterwards.
C9_NeverCeilingZeroExits ==
    ( /\ last.op = TerminationOp
      /\ settings[last.self].humanInputMode = "NEVER"
      /\ EffectiveCeiling(maxConsecutiveAutoReplyDict[last.self],
                          maxConsecutiveAutoReply[last.self], last.peer) = 0
      /\ last.messages.given
      /\ Len(last.messages.arr) = 1 )
    => /\ last.err = "none"
       /\ last.final
       /\ last.ret = Null
       /\ last.prompts = 0
       /\ MapGetNum(consecutiveAutoReplyCounter[last.self], last.peer) = 0

\* C10: for a peer with no ceiling of its own the strategy compares
\* against the agent's global ceiling and the ceiling query returns the
\* global ceiling; a peer's own ceiling, once set, is the one used for it.
C10_GlobalCeilingFallback ==
    [][ /\ last'.op = TerminationOp
           => LET a == last'.self
                  r == CheckTerminationOutcome(
                         settings[a], consecutiveAutoReplyCounter[a],
                         [k \in {last'.peer} |->
                            EffectiveCeiling(maxConsecutiveAutoReplyDict[a],
                                             maxConsecutiveAutoReply[a], last'.peer)],
                         maxConsecutiveAutoReply[a], oaiMessages[a],
                         last'.messages, last'.peer, last'.human)
              IN  /\ last'.err = r.err
                  /\ last'.final = r.final
                  /\ last'.ret = r.payload
                  /\ last'.prompts = r.prompts
                  /\ consecutiveAutoReplyCounter'[a] = r.counters
        /\ (last'.op = "maxConsecutiveAutoReply" /\ last'.peer # Null)
           => last'.num = EffectiveCeiling(maxConsecutiveAutoReplyDict[last'.self],
                                           maxConsecutiveAutoReply[last'.self],
                                           last'.peer) ]_vars

----------------------------------------------------------------------------
(* Properties of chats and histories *)

\* C11: when the termination strategy decides on "exit" it resets the
\* peer's counter to 0 and returns a definitive 'no further message'; and
\* the receive of a termination message by an automatic agent that replies
\* to the peer returns without an error and stores the message, sending
\* nothing.
C11_ExitEndsConversation ==
    [][ /\ last'.op = TerminationOp
           => LET a == last'.self
                  r == CheckTerminationOutcome(
                         settings[a], consecutiveAutoReplyCounter[a],
                         maxConsecutiveAutoReplyDict[a], maxConsecutiveAutoReply[a],
                         oaiMessages[a], last'.messages, last'.peer, last'.human)
              IN  (r.err = "none" /\ r.reply = "exit")
                  => /\ last'.err = "none"
                     /\ last'.final
                     /\ last'.ret = Null
                     /\ MapGetNum(consecutiveAutoReplyCounter'[a], last'.peer) = 0
        /\ ( /\ last'.op = "receive"
             /\ settings[last'.self].humanInputMode = "NEVER"
             /\ settings[last'.self].isTerminationMsg = "custom"
             /\ last'.msg.content = "TERMINATE"
             /\ last'.peer \in DOMAIN replyAtReceive[last'.self]
             /\ replyAtReceive[last'.self][last'.peer] )
           => /\ last'.err = "none"
              /\ Len(HistoryWith(oaiMessages'[last'.self], last'.peer))
                   = Len(HistoryWith(oaiMessages[last'.self], last'.peer)) + 1
              /\ oaiMessages'[last'.peer] = oaiMessages[last'.peer] ]_vars

\* C12: a chat started with a valid message (its histories cleared only
\* when there were none) reaches the recipient: the recipient stores the
\* message and the call ends without an error.
C12_ChatLoopRuns ==
    [][ ( /\ last'.op \in ChatOps
          /\ AppendAccepts(MessageToDict(last'.msg))
          /\ (last'.clear => /\ last'.peer \notin DOMAIN oaiMessages[last'.self]
                             /\ last'.self \notin DOMAIN oaiMessages[last'.peer]) )
        => /\ last'.err = "none"
           /\ last'.received
           /\ Len(HistoryWith(oaiMessages'[last'.peer], last'.self))
                = Len(HistoryWith(oaiMessages[last'.peer], last'.self)) + 1 ]_vars

\* C13: for an agent with humanInputMode NEVER and a ceiling n for the
\* peer, the peer's counter never exceeds n after the termination strategy
\* has run, and a run that finds the counter at n forces "exit".
C13_CeilingBoundsAutoReplies ==
    [][ ( /\ last'.op = TerminationOp
          /\ last'.err = "none"
          /\ settings[last'.self].humanInputMode = "NEVER" )
        => LET a == last'.self
               n == EffectiveCeiling(maxConsecutiveAutoReplyDict[a],
                                     maxConsecutiveAutoReply[a], last'.peer)
               before == MapGetNum(consecutiveAutoReplyCounter[a], last'.peer)
               after == MapGetNum(consecutiveAutoReplyCounter'[a], last'.peer)
           IN  /\ ToNumber(after) = NaN \/ after <= n
               /\ JsGe(before, n) => (last'.final /\ last'.ret = Null /\ after = 0) ]_vars

\* C16: clearHistory(peer) empties the conversation with that peer and
\* leaves the others as they were, clearHistory() removes every
\* conversation, and a chat started with clearHistory = true starts from an
\* empty history.
C16_ClearHistory ==
    [][ /\ last'.op = "clearHistory"
           => /\ last'.err = "none"
              /\ IF last'.peer = Null
                 THEN oaiMessages'[last'.self] = EmptyMap
                 ELSE /\ HistoryWith(oaiMessages'[last'.self], last'.peer) = << >>
                      /\ \A q \in Agents \ {last'.peer} :
                           HistoryWith(oaiMessages'[last'.self], q)
                             = HistoryWith(oaiMessages[last'.self], q)
        /\ ( /\ last'.op \in ChatOps
             /\ last'.clear
             /\ AppendAccepts(MessageToDict(last'.msg)) )
           => /\ last'.err # "TypeError" \/ last'.received
              /\ Len(HistoryWith(oaiMessages'[last'.self], last'.peer)) = 1 ]_vars

\* C17: lastMessage() returns null when the agent holds no conversation,
\* the last message of the conversation when it holds exactly one, and
\* throws the ambiguity error when it holds more; lastMessage(peer) for a
\* peer without a conversation throws an error naming the peer, and
\* returns the peer's last message otherwise.
C17_LastMessage ==
    last.op = "lastMessage"
    => LET store == oaiMessages[last.self]
           n == Cardinality(DOMAIN store)
       IN  IF last.peer = Null
           THEN /\ n = 0 => (last.err = "none" /\ last.ret = Null)
                /\ n = 1 => /\ last.err = "none"
                            /\ \E k \in DOMAIN store :
                                 /\ Len(store[k]) > 0
                                 /\ last.out = store[k][Len(store[k])]
                /\ n > 1 => last.err = "More than one conversation is found. Please specify the sender to get the last message."
           ELSE IF last.peer \notin DOMAIN store
           THEN last.err = "The agent '" \o NameOf(last.peer) \o "' is not present in any conversation. No history available for this agent."
           ELSE /\ last.err = "none"
                /\ Len(store[last.peer]) > 0
                /\ last.out = store[last.peer][Len(store[last.peer])]

\* lastMessage() refused by an agent holding two conversations
C17_Witness ==
    /\ last.op = "lastMessage"
    /\ last.peer = Null
    /\ Cardinality(DOMAIN oaiMessages[last.self]) = 2
    /\ last.err # "none"

----------------------------------------------------------------------------
(* Properties of reset *)

\* The config a tuple was registered with; the object it may hold under
\* `state` had the content 0 then
RegisteredConfig(e) == Spread(e.initConfig)

\* C14: reset() leaves the agent with no conversation, no counter and no
\* reply-at-receive flag, every tuple whose registration gave no reset rule
\* with the config it was registered with (the content of the object the
\* config holds included), every other tuple with its config passed
\* through its rule, and the registry and the settings otherwise unchanged.
C14_ResetSurface ==
    [][ last'.op = "reset"
        => LET a == last'.self
               old == replyFuncList[a]
               new == replyFuncList'[a]
           IN  /\ oaiMessages'[a] = EmptyMap
               /\ consecutiveAutoReplyCounter'[a] = EmptyMap
               /\ replyAtReceive'[a] = EmptyMap
               /\ settings' = settings
               /\ Len(new) = Len(old)
               /\ \A i \in 1..Len(old) :
                    /\ new[i].id = old[i].id
                    /\ new[i].trigger = old[i].trigger
                    /\ new[i].replyFunc = old[i].replyFunc
                    /\ new[i].resetConfig = old[i].resetConfig
                    /\ IF old[i].resetConfig = Null
                       THEN /\ new[i].config = RegisteredConfig(old[i])
                            /\ new[i].config.state = "shared"
                                 => new[i].shared = 0
                       ELSE new[i].config
                              = ApplyResetConfig(old[i].resetConfig, old[i].config) ]_vars

\* The reset rules that give the same config when run twice as when run once
IdempotentRules == { ZeroCount }

\* Whether a second reset() would leave the agent as it is
ResetChangesNothing(a) ==
    /\ ClearHistoryOutcome(oaiMessages[a], Null).store = oaiMessages[a]
    /\ ResetCounters(consecutiveAutoReplyCounter[a], Null)
         = consecutiveAutoReplyCounter[a]
    /\ replyAtReceive[a] = EmptyMap
    /\ ResetList(replyFuncList[a]) = replyFuncList[a]

\* C15 as stated: after reset() a second reset() changes nothing.
C15_ResetIdempotent ==
    last.op = "reset" => ResetChangesNothing(last.self)

\* C15, amended: after reset() a second reset() changes nothing, provided
\* every reset rule registered with a tuple is itself idempotent (tuples
\* registered without a rule are restored by copy).
C15_ResetIdempotentForIdempotentRules ==
    ( /\ last.op = "reset"
      /\ \A i \in 1..Len(replyFuncList[last.self]) :
           replyFuncList[last.self][i].resetConfig \in IdempotentRules \cup {Null} )
    => ResetChangesNothing(last.self)

\* A reset of an agent holding a tuple without a rule whose strategy has
\* written into its config, and a tuple with an idempotent rule
C15_Witness ==
    /\ last.op = "reset"
    /\ \A i \in 1..Len(replyFuncList[last.self]) :
         replyFuncList[last.self][i].resetConfig \in IdempotentRules \cup {Null}
    /\ \E i, j \in 1..Len(replyFuncList[last.self]) :
         /\ replyFuncList[last.self][i].resetConfig = ZeroCount
         /\ replyFuncList[last.self][j].resetConfig = Null
         /\ replyFuncList[last.self][j].replyFunc = SyncCounting
         /\ replyFuncList[last.self][j].shared = 1

----------------------------------------------------------------------------
(* Properties of function execution *)

\* The name under which a call is executed: funcCall.name || ''
CalledAs(name) == IF Truthy(name) THEN name ELSE ""

\* What JSON.parse makes of the args of the last call
LastArgsParsed ==
    JsonParse(FormatJsonStr(IF last.args = << >> THEN ArgsEmptyObject ELSE last.args))

\* C18: a call of a function of the function map with a valid JSON object
\* as args, the function completing without error, returns success = true
\* and a role-function message with the call's name whose content is the
\* string of the function's result: add with {"a":2,"b":3} gives "5".
C18_FunctionCallRoundTrip ==
    ( /\ last.op \in ExecuteOps
      /\ last.name \in settings[last.self].functionMap
      /\ last.name \in { "add", "addLater" }
      /\ last.args # << >>
      /\ LastArgsParsed.kind = "object" )
    => /\ last.final
       /\ last.out.role = "function"
       /\ last.out.name = last.name
       /\ (last.name = "add" /\ last.args = ArgsObject) => last.out.content = "5"

\* The argument texts that are not JSON
MalformedArgs == { ArgsTruncated, ArgsArrayTruncated }

\* C19: a call of a function of the function map whose args are not JSON
\* returns success = false and a role-function message with the call's
\* name describing the parse error; the function is not entered, nothing
\* is thrown and no part of the agent's state changes.
C19_MalformedArguments ==
    [][ ( /\ last'.op \in ExecuteOps
          /\ last'.name \in settings[last'.self].functionMap
          /\ last'.args \in MalformedArgs )
        => /\ last'.err = "none"
           /\ ~last'.final
           /\ ~last'.called
           /\ last'.out.role = "function"
           /\ last'.out.name = last'.name
           /\ last'.out.content =
                "Error: SyntaxError: Unexpected end of JSON input\n Your argument should follow JSON format."
           /\ UNCHANGED <<oaiMessages, consecutiveAutoReplyCounter,
                          maxConsecutiveAutoReplyDict, maxConsecutiveAutoReply,
                          replyAtReceive, replyFuncList, settings>> ]_vars

\* add called with the truncated text {"a":1,
C19_Witness ==
    /\ last.op = "executeFunction"
    /\ last.name = "add"
    /\ "add" \in settings[last.self].functionMap
    /\ last.args = ArgsTruncated
    /\ ~last.final

\* C20: executeFunction and aExecuteFunction throw nothing; a call naming
\* a function that is not in the function map, or a function of the map
\* that throws, returns success = false and a role-function message with
\* the same name describing the error; success = true is returned only
\* when the function is in the map, the args were parsed and the function
\* was entered.
C20_ErrorsAreResults ==
    last.op \in ExecuteOps
    => LET own == settings[last.self].functionMap
       IN  /\ last.err = "none"
           /\ last.out.role = "function"
           /\ last.out.name = CalledAs(last.name)
           /\ CalledAs(last.name) \notin own => (~last.final /\ ~last.called)
           /\ (last.name = "boom" /\ "boom" \in own /\ LastArgsParsed.kind = "array")
                => (~last.final /\ last.out.content = "Error: Error: boom")
           /\ last.final
                => /\ CalledAs(last.name) \in own
                   /\ LastArgsParsed.err = "none"
                   /\ last.called

----------------------------------------------------------------------------
(* Properties of the reply strategies *)

\* C21: when the last message stored in the conversation with the peer
\* carries a function-call, generateFunctionCallReply called on the stored
\* history executes the call and returns the role-function result message
\* as a definitive reply; when the last stored message carries no
\* function-call, it returns a non-definitive result.
C21_FunctionCallReply ==
    ( /\ last.op = "generateFunctionCallReply"
      /\ ~last.messages.given
      /\ HistoryWith(oaiMessages[last.self], last.peer) # << >> )
    => LET h == HistoryWith(oaiMessages[last.self], last.peer)
       IN  /\ last.err = "none"
           /\ Truthy(h[Len(h)].function_call)
                => (last.final /\ last.out.role = "function")
           /\ ~Truthy(h[Len(h)].function_call) => ~last.final

\* The config generateCodeExecutionReply used in the last call: the one
\* passed, else the agent's own (which a call leaves "auto" or false if
\* it was so before)
LastCodeConfig ==
    IF last.codeConfig.kind # "null" THEN last.codeConfig
    ELSE settings[last.self].codeExecutionConfig

\* The history generateCodeExecutionReply scanned in the last call
LastCodeHistory ==
    IF last.messages.given THEN last.messages.arr
    ELSE HistoryWith(oaiMessages[last.self], last.peer)

\* The messages of a history that hold code blocks
HoldsCode(message) ==
    /\ Truthy(message.content)
    /\ ExtractCode(message.content) # << <<UNKNOWN, message.content>> >>

\* C22: with lastNMessages = "auto", generateCodeExecutionReply scans
\* exactly the maximal run of trailing messages of role user; the oldest
\* message of that window that holds code blocks is executed and the
\* reply is definitive, even when it is the oldest of three trailing user
\* messages; when no message of the window holds code blocks, or when
\* code execution is disabled, the reply is non-definitive.
C22_AutoScanWindow ==
    ( /\ last.op = "generateCodeExecutionReply"
      /\ (last.messages.given \/ last.peer \in DOMAIN oaiMessages[last.self]) )
    => LET arr == LastCodeHistory
           n == Len(arr)
           window == { i \in 1..n : \A j \in i..n : arr[j].role = "user" }
           holding == { i \in window : HoldsCode(arr[i]) }
       IN  /\ LastCodeConfig = CodeConfigFalse => (last.err = "none" /\ ~last.final)
           /\ LastCodeConfig = CodeConfig(AutoScan)
                => /\ last.err = "none"
                   /\ last.num = Cardinality(window)
                   /\ holding = {} => ~last.final
                   /\ holding # {}
                        => /\ last.final
                           /\ last.position = CHOOSE i \in holding :
                                                 \A j \in holding : i <= j

----------------------------------------------------------------------------
(* Properties of the termination strategy and its counterpart *)

TerminationOps == { "checkTerminationAndHumanReply", "aCheckTerminationAndHumanReply" }

\* C23: under humanInputMode TERMINATE or NEVER, when the peer's counter
\* is below the ceiling and the incoming message is a termination message,
\* checkTerminationAndHumanReply and aCheckTerminationAndHumanReply both
\* force "exit" (a definitive 'no further message') without soliciting
\* human input.
C23_TerminationMessageForcesExit ==
    [][ ( /\ last'.op \in TerminationOps
          /\ settings[last'.self].humanInputMode \in { "TERMINATE", "NEVER" }
          /\ CountOf(consecutiveAutoReplyCounter[last'.self], last'.peer)
               < EffectiveCeiling(maxConsecutiveAutoReplyDict[last'.self],
                                  maxConsecutiveAutoReply[last'.self], last'.peer)
          /\ last'.messages.given
          /\ last'.messages.arr[Len(last'.messages.arr)].content = "TERMINATE" )
        => /\ last'.err = "none"
           /\ last'.prompts = 0
           /\ last'.final
           /\ last'.ret = Null ]_vars

\* C24: under humanInputMode ALWAYS the termination strategy solicits
\* human input on every message, whatever the counter and the ceiling;
\* with an empty input the reply is "exit" (a definitive 'no further
\* message') if the message is a termination message and the empty string
\* otherwise; a non-empty input is returned as the definitive reply, the
\* typed word exit ending the conversation, and the counter is 0 afterwards.
C24_AlwaysSolicitsHuman ==
    ( /\ last.op \in TerminationOps
      /\ settings[last.self].humanInputMode = "ALWAYS"
      /\ last.messages.given
      /\ Len(last.messages.arr) > 0 )
    => LET message == last.messages.arr[Len(last.messages.arr)]
       IN  /\ last.err = "none"
           /\ last.prompts = 1
           /\ (last.human = "" /\ message.content = "TERMINATE")
                => (last.final /\ last.ret = Null)
           /\ (last.human = "" /\ message.content # "TERMINATE")
                => (last.final => last.ret = "")
           /\ last.human # ""
                => /\ last.final
                   /\ last.ret = (IF last.human = "exit" THEN Null ELSE last.human)
                   /\ MapGetNum(consecutiveAutoReplyCounter[last.self], last.peer) = 0

----------------------------------------------------------------------------
(* Properties of the trigger matcher *)

\* The reference matcher: "true", "false", or "Error" for a shape that is
\* none of null, string, predicate, agent, list. A list is tried from
\* element i on, left to right, up to the first element that does not
\* answer "false".
RECURSIVE Matches(_, _)
RECURSIVE MatchesAny(_, _, _)
Matches(trigger, sender) ==
    IF trigger.kind = "null" THEN (IF sender = Null THEN "true" ELSE "false")
    ELSE IF trigger.kind = "string"
    THEN (IF sender # Null /\ NameOf(sender) = trigger.val THEN "true" ELSE "false")
    ELSE IF trigger.kind = "predicate"
    THEN (IF PredicateHolds(trigger.val, sender) THEN "true" ELSE "false")
    ELSE IF trigger.kind = "agent"
    THEN (IF sender = trigger.val THEN "true" ELSE "false")
    ELSE IF trigger.kind = "list" THEN MatchesAny(trigger.elems, 1, sender)
    ELSE "Error"

MatchesAny(elems, i, sender) ==
    IF i > Len(elems) THEN "false"
    ELSE IF Matches(elems[i], sender) = "false" THEN MatchesAny(elems, i + 1, sender)
    ELSE Matches(elems[i], sender)

\* C25: for every trigger and sender _matchTrigger agrees with the
\* reference: null matches exactly an absent sender, a string exactly the
\* sender of that name, a predicate gives its result, an agent matches
\* exactly itself, a list matches exactly when one of its elements does,
\* its elements tried left to right and none after the first match, and
\* any other shape raises the unsupported-trigger Error.
C25_MatchTriggerAgrees ==
    last.op = "_matchTrigger"
    => LET ref == Matches(last.trigger, last.peer)
           elems == last.trigger.elems
           hits == { i \in 1..Len(elems) : Matches(elems[i], last.peer) # "false" }
       IN  /\ last.err = (IF ref = "Error" THEN "Error" ELSE "none")
           /\ last.final = (ref = "true")
           /\ last.num = IF hits = {} THEN Len(elems)
                          ELSE CHOOSE i \in hits : \A j \in hits : i <= j

----------------------------------------------------------------------------
(* Properties of the exchanges *)

\* The roles under which the two sides hold one message of an exchange:
\* assistant on one side and user on the other, unless the message was
\* forced to assistant (it carries a function-call) or kept as function
MirroredRoles(x, y) ==
    IF Truthy(x.function_call) THEN x.role = "assistant" /\ y.role = "assistant"
    ELSE IF x.role = "function" THEN y.role = "function"
    ELSE { x.role, y.role } = { "assistant", "user" }

\* C26: after any sequence of send/receive exchanges between two agents,
\* with no clear or reset in between, the conversation each holds with the
\* other has the same number of messages, with the same contents in the
\* same order, each message stored as assistant on the sender's side and
\* as user on the receiver's side (unless forced to assistant or kept as
\* function).
C26_ConversationsMirror ==
    \A a \in Agents : \A b \in Agents \ {a} :
        LET x == HistoryWith(oaiMessages[a], b)
            y == HistoryWith(oaiMessages[b], a)
        IN  /\ Len(x) = Len(y)
            /\ \A i \in 1..Len(x) :
                  /\ i <= Len(y)
                  /\ x[i].content = y[i].content
                  /\ x[i].function_call = y[i].function_call
                  /\ MirroredRoles(x[i], y[i])

C28_RepliesAccepted ==
    /\ (last.op = "receive" /\ AppendAccepts(MessageToDict(last.msg)))
         => last.err # "Error"
    /\ (last.op = TerminationOp /\ last.err = "none" /\ last.final
          /\ last.ret # Null)
         => LET s == SendOutcome(oaiMessages, last.self, StrMsg(last.ret), last.peer)
            IN  /\ s.appended
                /\ Len(HistoryWith(s.stores[last.self], last.peer))
                     = Len(HistoryWith(oaiMessages[last.self], last.peer)) + 1

====
